---- MODULE Spec2Model ----
(***************************************************************************)
(* A model of the netlist-to-board synchronisation engine                  *)
(* (BOARD_NETLIST_UPDATER, pcbnew/netlist_reader/board_netlist_updater.cpp)*)
(*                                                                         *)
(* The board, the updater object and the running UpdateNetlist call are    *)
(* the state.  UpdateNetlist is stepped phase by phase (its program        *)
(* counter is pc); every phase is a deterministic function of the state,   *)
(* written as an operator over the record State and installed by the       *)
(* action of the same phase.                                               *)
(***************************************************************************)
EXTENDS Integers, Sequences, FiniteSets, TLC

VARIABLES
    footprints,        \* m_board->Footprints(): footprint ids in board order
    fpObjs,            \* every FOOTPRINT object ever made: id -> its fields
    nets,              \* every NETINFO_ITEM object ever made: id -> its fields
    netInfo,           \* m_board->GetNetInfo(): ids of the registered nets
    zones,             \* m_board->Zones()
    tracks,            \* m_board->Tracks()
    conn,              \* connectivity data: zone index -> connected pads
    geom,              \* board outline and page (never changed by the updater)
    opts,              \* the six option fields of the updater
    oldToNew,          \* m_oldToNewNets
    padNets,           \* m_padNets
    padPinFunctions,   \* m_padPinFunctions
    addedNets,         \* m_addedNets
    zoneCache,         \* m_zoneConnectionsCache
    warningCount,      \* m_warningCount
    errorCount,        \* m_errorCount
    newFootprintsCount,\* m_newFootprintsCount
    commit,            \* m_commit: the staged changes
    pc,                \* position inside UpdateNetlist ("idle" outside it)
    netlist,           \* aNetlist of the running (or last) call
    idx,               \* loop index i of the component loop
    lastPreexisting,   \* lastPreexistingFootprint
    footprintMap,      \* footprintMap
    reports,           \* what the reporter received during the call
    syncLog,           \* calls of updateFootprintParameters: <<component, footprint>>
    phaseLog,          \* the phases the call has run, in order
    before,            \* the board as it was when the call started
    prevCall,          \* netlist and options of the previous finished call
    runs               \* number of UpdateNetlist calls started

\* The state of one call of DRC_TEST_PROVIDER_SLIVER_CHECKER::Run
\* (pcbnew/drc/drc_test_provider_sliver_checker.cpp): the main thread and the
\* worker threads it starts
VARIABLES
    layerCount,          \* number of enabled copper layers of the board
    parallelThreadCount, \* number of worker threads
    next,                \* std::atomic<size_t> next: the layer cursor
    done,                \* std::atomic<size_t> done: the progress counter
    threads_finished,    \* std::atomic<size_t> threads_finished
    layerPolys,          \* the per-layer polygon slots: index -> what was written
    cancelled,           \* m_drcEngine->IsCancelled()
    mainPc,              \* position of the main thread inside Run
    mainIi,              \* loop index ii of the main thread's read loop
    workerPc,            \* position of each worker thread
    workerI,             \* the local i of each worker thread
    obtained,            \* layer index -> the workers that got it from the cursor
    readLog              \* the slots the main thread has read, in order

\* The state of one call of CheckLibSymbol (eeschema/symbol_checker.cpp)
VARIABLES
    aSymbol,             \* the LIB_SYMBOL the call is made with
    pinList,             \* pinList: the pins of the symbol, sorted by line 56
    aMessages,           \* aMessages: the messages the call has stored
    checkPc,             \* position of the call inside CheckLibSymbol
    ii,                  \* loop index of the loop the call is in
    pinReads             \* the indices at which the call has read pinList

updaterVars ==
    << footprints, fpObjs, nets, netInfo, zones, tracks, conn, geom, opts,
       oldToNew, padNets, padPinFunctions, addedNets, zoneCache,
       warningCount, errorCount, newFootprintsCount, commit, pc, netlist,
       idx, lastPreexisting, footprintMap, reports, syncLog, phaseLog,
       before, prevCall, runs >>

sliverVars ==
    << layerCount, parallelThreadCount, next, done, threads_finished, layerPolys,
       cancelled, mainPc, mainIi, workerPc, workerI, obtained, readLog >>

symbolVars == << aSymbol, pinList, aMessages, checkPc, ii, pinReads >>

vars == << updaterVars, sliverVars, symbolVars >>

-----------------------------------------------------------------------------
(* Bounds of the model *)

\* number of UpdateNetlist calls made on one updater object in SpecSeq
MaxRuns == 3

-----------------------------------------------------------------------------
(* Generic helpers: partial maps (std::map) and sequences *)

EmptyMap == << >>

Put(m, k, v) == [x \in (DOMAIN m) \cup {k} |-> IF x = k THEN v ELSE m[x]]

Has(m, k) == k \in DOMAIN m

Range(q) == { q[j] : j \in DOMAIN q }

RECURSIVE RemoveFromSeq(_, _)
RemoveFromSeq(q, x) ==
    IF q = << >> THEN << >>
    ELSE IF Head(q) = x THEN RemoveFromSeq(Tail(q), x)
         ELSE << Head(q) >> \o RemoveFromSeq(Tail(q), x)

-----------------------------------------------------------------------------
(* Program constants *)

NullId == 0             \* nullptr
DryNet == -1            \* a NETINFO_ITEM that lives only during a dry run
UNCONNECTED == 0        \* NETINFO_LIST::UNCONNECTED, the net code of <no net>
NoPad == << >>          \* a null PAD*

FP_EXCLUDE_FROM_BOM == 8
FP_BOARD_ONLY == 16

IU_PER_MM == 1000000

Millimeter2iu(mm) == mm * IU_PER_MM

HasBit(attrs, bit) == (attrs \div bit) % 2 = 1
SetBit(attrs, bit) == IF HasBit(attrs, bit) THEN attrs ELSE attrs + bit
ClearBit(attrs, bit) == IF HasBit(attrs, bit) THEN attrs - bit ELSE attrs

\* wxString::CmpNoCase over the reference designators of the model
ToUpper(str) ==
    CASE str = "r1" -> "R1"
      [] str = "u1" -> "U1"
      [] str = "r2" -> "R2"
      [] OTHER -> str

CmpNoCaseEq(a, b) == ToUpper(a) = ToUpper(b)

\* wxString operator< over the net names of the model
NameRank(n) ==
    CASE n = "" -> 0
      [] n = "N1" -> 1
      [] n = "N2" -> 2
      [] n = "N3" -> 3
      [] OTHER -> 4

NameLess(a, b) == NameRank(a) < NameRank(b)

-----------------------------------------------------------------------------
(* The footprint library behind m_frame->LoadFootprint *)

LibPad(name, copper) ==
    [name |-> name, pinFunction |-> "", pinType |-> "", net |-> NullId,
     onCopper |-> copper]

Library ==
    [id \in {"lib:A", "lib:B"} |->
        IF id = "lib:A"
        THEN << LibPad("1", TRUE), LibPad("2", TRUE) >>
        ELSE << LibPad("1", TRUE), LibPad("3", FALSE) >>]

\* whether LoadFootprint finds the footprint (it returns nullptr otherwise)
CanLoad(fpid) == fpid \in DOMAIN Library

\* The footprint LoadFootprint returns
LoadFootprint(fpid) ==
    [ref |-> "REF**", value |-> "VAL**", path |-> "", props |-> EmptyMap,
     attrs |-> 0, locked |-> FALSE, fpid |-> fpid, pos |-> << 0, 0 >>,
     pads |-> Library[fpid]]

-----------------------------------------------------------------------------
(* The state as one record, so that the code's statements compose *)

State ==
    [footprints |-> footprints, fpObjs |-> fpObjs, nets |-> nets,
     netInfo |-> netInfo, zones |-> zones, tracks |-> tracks, conn |-> conn,
     geom |-> geom, opts |-> opts, oldToNew |-> oldToNew, padNets |-> padNets,
     padPinFunctions |-> padPinFunctions, addedNets |-> addedNets,
     zoneCache |-> zoneCache, warningCount |-> warningCount,
     errorCount |-> errorCount, newFootprintsCount |-> newFootprintsCount,
     commit |-> commit, netlist |-> netlist, lastPreexisting |-> lastPreexisting,
     footprintMap |-> footprintMap, reports |-> reports, syncLog |-> syncLog,
     ret |-> NullId, changed |-> FALSE, count |-> 0, netname |-> "",
     previouspad |-> NoPad]

\* m_reporter->Report( msg, severity )
Report(s, sev, msg) ==
    [s EXCEPT !.reports = Append(@, [sev |-> sev, msg |-> msg, tail |-> FALSE])]

\* m_reporter->ReportTail( msg, severity )
ReportTail(s, sev, msg) ==
    [s EXCEPT !.reports = Append(@, [sev |-> sev, msg |-> msg, tail |-> TRUE])]

\* PAD::GetNetname of pad p = <<footprint id, pad index>>
PadOf(s, p) == s.fpObjs[p[1]].pads[p[2]]

PadNetname(s, p) == s.nets[PadOf(s, p).net].name

\* BOARD::FindNet( name ): the registered net of that name, or nullptr
FindNet(s, name) ==
    IF \E n \in s.netInfo : s.nets[n].name = name
    THEN CHOOSE n \in s.netInfo : s.nets[n].name = name
    ELSE NullId

\* BOARD::FindNet( code )
FindNetByCode(s, code) ==
    IF \E n \in s.netInfo : s.nets[n].code = code
    THEN CHOOSE n \in s.netInfo : s.nets[n].code = code
    ELSE NullId

\* COMMIT::GetStatus( item ): is a change of the item already staged
GetStatus(s, kind, id) ==
    \E j \in DOMAIN s.commit : s.commit[j].kind = kind /\ s.commit[j].id = id

\* COMMIT::Add / Remove / Modify / Modified / Removed: stage one change
Stage(s, op, kind, id) ==
    IF GetStatus(s, kind, id) /\ op = "modify"
    THEN s
    ELSE [s EXCEPT !.commit = Append(@, [op |-> op, kind |-> kind, id |-> id])]

-----------------------------------------------------------------------------
(* The dry-run caches *)

cacheNetname(s, p, name) == [s EXCEPT !.padNets = Put(@, p, name)]

getNetname(s, p) ==
    IF s.opts.isDryRun /\ Has(s.padNets, p) THEN s.padNets[p] ELSE PadNetname(s, p)

cachePinFunction(s, p, fn) == [s EXCEPT !.padPinFunctions = Put(@, p, fn)]

getPinFunction(s, p) ==
    IF s.opts.isDryRun /\ Has(s.padPinFunctions, p)
    THEN s.padPinFunctions[p]
    ELSE PadOf(s, p).pinFunction

-----------------------------------------------------------------------------
(* Adding and replacing footprints *)

\* BOARD::IsEmpty
IsEmpty(s) ==
    /\ s.footprints = << >>
    /\ s.tracks = << >>
    /\ s.zones = << >>
    /\ ~s.geom.drawings

\* a slip: the page is never asked
estimateBelowBoardOnly(s) ==
    IF s.geom.bbox.w # 0 \/ s.geom.bbox.h # 0
    THEN << s.geom.bbox.cx, s.geom.bbox.bottom + Millimeter2iu(10) >>
    ELSE << 0, 0 >>

estimateComponentInsertionPosition(s) ==
    IF ~IsEmpty(s)
    THEN IF s.geom.bbox.w # 0 \/ s.geom.bbox.h # 0
         THEN << s.geom.bbox.cx, s.geom.bbox.bottom + Millimeter2iu(10) >>
         ELSE << 0, 0 >>
    ELSE << s.geom.pageW \div 2, s.geom.pageH \div 2 >>

\* The pads of a loaded footprint after pad->SetNetCode( 0 )
ResetPadNets(s, pads) ==
    [k \in DOMAIN pads |-> [pads[k] EXCEPT !.net = FindNetByCode(s, UNCONNECTED)]]

\* lines 170-185: the loaded footprint, its pads on <no net>, at its position
PlacedFootprint(s, fpid) ==
    [LoadFootprint(fpid) EXCEPT !.pads = ResetPadNets(s, @),
                                !.pos = estimateComponentInsertionPosition(s)]

\* a slip: the new footprint is put on the board at once
AddLoadedOnBoard(s, comp, id) ==
    IF ~s.opts.isDryRun
    THEN [Stage([s EXCEPT !.fpObjs = Append(@, PlacedFootprint(s, comp.fpid)),
                          !.footprints = Append(@, id)],
                "add", "fp", id)
            EXCEPT !.newFootprintsCount = @ + 1, !.ret = id]
    ELSE [s EXCEPT !.newFootprintsCount = @ + 1, !.ret = NullId]

\* lines 180-197
AddLoaded(s, comp, id) ==
    IF ~s.opts.isDryRun
    THEN [Stage([s EXCEPT !.fpObjs = Append(@, PlacedFootprint(s, comp.fpid))],
                "add", "fp", id)
            EXCEPT !.newFootprintsCount = @ + 1, !.ret = id]
    ELSE [s EXCEPT !.newFootprintsCount = @ + 1, !.ret = NullId]

\* a slip: the footprint is counted before the library is asked
addNewComponentCountsFirst(s, comp) ==
    IF comp.fpid = ""
    THEN [Report(s, "error", << "Cannot add (no footprint assigned)", comp.ref >>)
            EXCEPT !.errorCount = @ + 1, !.newFootprintsCount = @ + 1, !.ret = NullId]
    ELSE IF ~CanLoad(comp.fpid)
    THEN [Report(s, "error", << "Cannot add (footprint not found)", comp.ref, comp.fpid >>)
            EXCEPT !.errorCount = @ + 1, !.newFootprintsCount = @ + 1, !.ret = NullId]
    ELSE AddLoaded(Report(s, "action", << "Add", comp.ref, comp.fpid >>), comp,
                   Len(s.fpObjs) + 1)

\* addNewComponent: the result is in .ret (NullId for nullptr)
addNewComponent(s, comp) ==
    IF comp.fpid = ""
    THEN [Report(s, "error", << "Cannot add (no footprint assigned)", comp.ref >>)
            EXCEPT !.errorCount = @ + 1, !.ret = NullId]
    ELSE IF ~CanLoad(comp.fpid)
    THEN [Report(s, "error", << "Cannot add (footprint not found)", comp.ref, comp.fpid >>)
            EXCEPT !.errorCount = @ + 1, !.ret = NullId]
    ELSE AddLoaded(Report(s, "action", << "Add", comp.ref, comp.fpid >>), comp,
                   Len(s.fpObjs) + 1)

\* the footprint ExchangeFootprint puts on the board: the loaded footprint
\* with the place, the texts, the path and the properties of the old one
ExchangedFootprint(s, old, fpid) ==
    [LoadFootprint(fpid) EXCEPT !.ref = old.ref, !.value = old.value,
                                !.path = old.path, !.props = old.props,
                                !.pos = old.pos,
                                !.pads = ResetPadNets(s, @)]

\* PCB_EDIT_FRAME::ExchangeFootprint: the swap is staged in the commit
ExchangeFootprint(s, existing, fpid, id) ==
    [Stage(Stage([s EXCEPT !.fpObjs = Append(@, ExchangedFootprint(s, s.fpObjs[existing],
                                                                  fpid))],
                 "remove", "fp", existing),
           "add", "fp", id)
       EXCEPT !.ret = id]

\* lines 234-246
ReplaceLoaded(s, existing, comp) ==
    IF ~s.opts.isDryRun
    THEN ExchangeFootprint([s EXCEPT !.newFootprintsCount = @ + 1], existing,
                           comp.fpid, Len(s.fpObjs) + 1)
    ELSE [s EXCEPT !.newFootprintsCount = @ + 1, !.ret = NullId]

\* replaceComponent: the result is in .ret (NullId for nullptr)
replaceComponent(s, existing, comp) ==
    IF comp.fpid = ""
    THEN [Report(s, "error", << "Cannot update (no footprint assigned)", comp.ref >>)
            EXCEPT !.errorCount = @ + 1, !.ret = NullId]
    ELSE IF ~CanLoad(comp.fpid)
    THEN [Report(s, "error", << "Cannot update (footprint not found)", comp.ref, comp.fpid >>)
            EXCEPT !.errorCount = @ + 1, !.ret = NullId]
    ELSE ReplaceLoaded(Report(s, "action", << "Change footprint", s.fpObjs[existing].ref,
                                              s.fpObjs[existing].fpid, comp.fpid >>),
                       existing, comp)

-----------------------------------------------------------------------------
(* Metadata sync *)

\* a slip: the field is assigned in a dry run too
AssignFieldAlways(s, f, field, value) ==
    [s EXCEPT !.changed = TRUE, !.fpObjs[f][field] = value]

\* the assignment of one field, made outside a dry run only
AssignField(s, f, field, value) ==
    IF ~s.opts.isDryRun
    THEN [s EXCEPT !.changed = TRUE, !.fpObjs[f][field] = value]
    ELSE s

\* lines 261-273
SyncReference(s, f, comp) ==
    IF s.fpObjs[f].ref # comp.ref
    THEN AssignField(Report(s, "action", << "Change reference", s.fpObjs[f].ref, comp.ref >>),
                     f, "ref", comp.ref)
    ELSE s

\* lines 276-289
SyncValue(s, f, comp) ==
    IF s.fpObjs[f].value # comp.value
    THEN AssignField(Report(s, "action", << "Change value", s.fpObjs[f].ref,
                                            s.fpObjs[f].value, comp.value >>),
                     f, "value", comp.value)
    ELSE s

\* lines 292-305
SyncPath(s, f, comp) ==
    IF s.fpObjs[f].path # comp.path
    THEN AssignField(Report(s, "action", << "Update symbol association", s.fpObjs[f].ref,
                                            s.fpObjs[f].path, comp.path >>),
                     f, "path", comp.path)
    ELSE s

\* lines 307-318
SyncProperties(s, f, comp) ==
    IF s.fpObjs[f].props # comp.props
    THEN AssignField(Report(s, "action", << "Update properties", s.fpObjs[f].ref >>),
                     f, "props", comp.props)
    ELSE s

\* a slip: the attribute word is overwritten, the other bits are lost
SyncBomAttributeOverwrites(s, f, comp) ==
    IF Has(comp.props, "exclude_from_bom") # HasBit(s.fpObjs[f].attrs, FP_EXCLUDE_FROM_BOM)
    THEN IF Has(comp.props, "exclude_from_bom")
         THEN AssignField(Report(s, "action", << "Setting exclude from BOM", s.fpObjs[f].ref >>),
                          f, "attrs", FP_EXCLUDE_FROM_BOM)
         ELSE AssignField(Report(s, "action", << "Removing exclude from BOM", s.fpObjs[f].ref >>),
                          f, "attrs", 0)
    ELSE s

\* lines 320-345
SyncBomAttribute(s, f, comp) ==
    IF Has(comp.props, "exclude_from_bom") # HasBit(s.fpObjs[f].attrs, FP_EXCLUDE_FROM_BOM)
    THEN IF Has(comp.props, "exclude_from_bom")
         THEN AssignField(Report(s, "action", << "Setting exclude from BOM", s.fpObjs[f].ref >>),
                          f, "attrs", SetBit(s.fpObjs[f].attrs, FP_EXCLUDE_FROM_BOM))
         ELSE AssignField(Report(s, "action", << "Removing exclude from BOM", s.fpObjs[f].ref >>),
                          f, "attrs", ClearBit(s.fpObjs[f].attrs, FP_EXCLUDE_FROM_BOM))
    ELSE s

\* lines 347-350 and 493-496: m_commit.Modified( footprint, copy ) on a change
\* only; copy is << >> for nullptr and holds the clone otherwise
ModifiedIfChanged(s, copy, f) ==
    IF s.changed /\ copy # << >>
    THEN [s EXCEPT !.commit = Append(@, [op |-> "modify", kind |-> "fp", id |-> f,
                                         copy |-> copy[1]])]
    ELSE s

\* lines 250-353; the copy of lines 256-257 is the last argument but one
updateFootprintParameters(s, f, comp) ==
    ModifiedIfChanged(
        SyncBomAttribute(
            SyncProperties(
                SyncPath(
                    SyncValue(
                        SyncReference([s EXCEPT !.changed = FALSE], f, comp),
                        f, comp),
                    f, comp),
                f, comp),
            f, comp),
        IF GetStatus(s, "fp", f) THEN << >> ELSE << s.fpObjs[f] >>, f)

-----------------------------------------------------------------------------
(* Pad/net sync *)

\* COMPONENT::GetNet( pin name ): the first pin of that name, or the invalid
\* (empty) COMPONENT_NET
InvalidNet == [pin |-> "", net |-> "", func |-> "", type |-> ""]

RECURSIVE GetNetFrom(_, _, _)
GetNetFrom(pins, name, j) ==
    IF j > Len(pins) THEN InvalidNet
    ELSE IF pins[j].pin = name THEN pins[j]
    ELSE GetNetFrom(pins, name, j + 1)

GetNet(comp, name) == GetNetFrom(comp.pins, name, 1)

IsValid(net) == net.pin # ""

\* lines 379-394: the pin function and the pin type of one pad
SyncPinStrings(s, f, k, pinFunction, pinType) ==
    IF ~s.opts.isDryRun
    THEN [s EXCEPT !.changed = @ \/ s.fpObjs[f].pads[k].pinFunction # pinFunction
                                 \/ s.fpObjs[f].pads[k].pinType # pinType,
                   !.fpObjs[f].pads[k].pinFunction = pinFunction,
                   !.fpObjs[f].pads[k].pinType = pinType]
    ELSE cachePinFunction(s, << f, k >>, pinFunction)

\* a slip: the warning is given for a pad that is disconnected as well
ReportNoNetAlsoWarns(s, f, k) ==
    IF s.opts.warnForNoNetPads /\ s.fpObjs[f].pads[k].onCopper
       /\ s.fpObjs[f].pads[k].name # ""
    THEN Report(IF PadNetname(s, << f, k >>) # ""
                THEN Report(s, "action", << "Disconnect", s.fpObjs[f].ref,
                                            s.fpObjs[f].pads[k].name >>)
                ELSE s,
                "warning", << "No net for pin", s.fpObjs[f].ref, s.fpObjs[f].pads[k].name >>)
    ELSE IF PadNetname(s, << f, k >>) # ""
    THEN Report(s, "action", << "Disconnect", s.fpObjs[f].ref, s.fpObjs[f].pads[k].name >>)
    ELSE s

\* lines 399-413
ReportNoNet(s, f, k) ==
    IF PadNetname(s, << f, k >>) # ""
    THEN Report(s, "action", << "Disconnect", s.fpObjs[f].ref, s.fpObjs[f].pads[k].name >>)
    ELSE IF s.opts.warnForNoNetPads /\ s.fpObjs[f].pads[k].onCopper
            /\ s.fpObjs[f].pads[k].name # ""
         THEN Report(s, "warning", << "No net for pin", s.fpObjs[f].ref,
                                      s.fpObjs[f].pads[k].name >>)
         ELSE s

\* lines 420-423
ClearPinFunction(s, f, k) ==
    IF PadNetname(s, << f, k >>) = ""
    THEN [s EXCEPT !.fpObjs[f].pads[k].pinFunction = ""]
    ELSE s

\* lines 415-427
SetUnconnected(s, f, k) ==
    IF ~s.opts.isDryRun
    THEN ClearPinFunction([s EXCEPT !.changed = TRUE,
                                    !.fpObjs[f].pads[k].net = FindNetByCode(s, UNCONNECTED)],
                          f, k)
    ELSE cacheNetname(s, << f, k >>, "")

\* lines 397-428: the pad has no net in the netlist, or is on no copper layer
DisconnectPad(s, f, k) == SetUnconnected(ReportNoNet(s, f, k), f, k)

\* lines 449-456: a new NETINFO_ITEM; its id is in .ret
MintNet(s, netName, id) ==
    IF ~s.opts.isDryRun
    THEN [Stage([s EXCEPT !.nets = Append(@, [name |-> netName, code |-> -1,
                                             isCurrent |-> TRUE])],
                "add", "net", id)
            EXCEPT !.changed = TRUE, !.ret = id]
    ELSE [s EXCEPT !.ret = DryNet]

\* line 458
RecordAddedNet(s, netName) == [s EXCEPT !.addedNets = Put(@, netName, s.ret)]

\* lines 447-461
NewNet(s, netName) ==
    Report(RecordAddedNet(MintNet(s, netName, Len(s.nets) + 1), netName),
           "action", << "Add net", netName >>)

\* a slip: the nets added earlier in the pass are not looked up
ResolveNetNoCache(s, netName, found) ==
    IF found # NullId THEN [s EXCEPT !.ret = found]
    ELSE NewNet(s, netName)

\* lines 440-461: the net to bind, found on the board, added earlier in the
\* pass, or new; its id is in .ret
ResolveNet(s, netName, found) ==
    IF found # NullId THEN [s EXCEPT !.ret = found]
    ELSE IF Has(s.addedNets, netName) /\ s.addedNets[netName] # NullId
    THEN [s EXCEPT !.ret = s.addedNets[netName]]
    ELSE NewNet(s, netName)

\* a slip: the rename is reported and not recorded
ReportConnectNoRename(s, f, k, netName) ==
    IF PadNetname(s, << f, k >>) # ""
    THEN Report(s, "action", << "Reconnect", s.fpObjs[f].ref, s.fpObjs[f].pads[k].name,
                                PadNetname(s, << f, k >>), netName >>)
    ELSE Report(s, "action", << "Connect", s.fpObjs[f].ref, s.fpObjs[f].pads[k].name,
                                netName >>)

\* lines 463-480
ReportConnect(s, f, k, netName) ==
    IF PadNetname(s, << f, k >>) # ""
    THEN Report([s EXCEPT !.oldToNew = Put(@, PadNetname(s, << f, k >>), netName)],
                "action", << "Reconnect", s.fpObjs[f].ref, s.fpObjs[f].pads[k].name,
                             PadNetname(s, << f, k >>), netName >>)
    ELSE Report(s, "action", << "Connect", s.fpObjs[f].ref, s.fpObjs[f].pads[k].name,
                                netName >>)

\* lines 482-488
BindPad(s, f, k, netName) ==
    IF ~s.opts.isDryRun
    THEN [s EXCEPT !.changed = TRUE, !.fpObjs[f].pads[k].net = s.ret]
    ELSE cacheNetname(s, << f, k >>, netName)

\* lines 434-435
MarkFound(s, found) ==
    IF found # NullId /\ ~s.opts.isDryRun
    THEN [s EXCEPT !.nets[found].isCurrent = TRUE]
    ELSE s

\* lines 437-489
Rebind(s, f, k, netName, found) ==
    IF PadNetname(s, << f, k >>) = netName THEN s
    ELSE BindPad(ReportConnect(ResolveNet(s, netName, found), f, k, netName),
                 f, k, netName)

\* lines 431-489: the pad has a net in the netlist
ConnectPad(s, f, k, netName) ==
    Rebind(MarkFound(s, FindNet(s, netName)), f, k, netName, FindNet(s, netName))

\* a slip: the copper layers of the pad are not asked
SyncPadNetAnyLayer(s, f, k, net) ==
    IF ~IsValid(net)
    THEN DisconnectPad(s, f, k)
    ELSE ConnectPad(s, f, k, net.net)

\* lines 396-490
SyncPadNet(s, f, k, net) ==
    IF ~IsValid(net) \/ ~s.fpObjs[f].pads[k].onCopper
    THEN DisconnectPad(s, f, k)
    ELSE ConnectPad(s, f, k, net.net)

\* lines 368-490, with the COMPONENT_NET of the pad
SyncPadWith(s, f, k, net) ==
    SyncPadNet(SyncPinStrings(s, f, k, IF IsValid(net) THEN net.func ELSE "",
                              IF IsValid(net) THEN net.type ELSE ""),
               f, k, net)

\* the body of the pad loop of updateComponentPadConnections
SyncPad(s, f, k, comp) == SyncPadWith(s, f, k, GetNet(comp, s.fpObjs[f].pads[k].name))

RECURSIVE SyncPads(_, _, _, _)
SyncPads(s, f, k, comp) ==
    IF k > Len(s.fpObjs[f].pads) THEN s
    ELSE SyncPads(SyncPad(s, f, k, comp), f, k + 1, comp)

\* a slip: the pad sync clones the footprint whatever the transaction holds
updateComponentPadConnectionsOwnCopy(s, f, comp) ==
    ModifiedIfChanged(SyncPads([s EXCEPT !.changed = FALSE], f, 1, comp),
                      << s.fpObjs[f] >>, f)

updateComponentPadConnections(s, f, comp) ==
    ModifiedIfChanged(SyncPads([s EXCEPT !.changed = FALSE], f, 1, comp),
                      IF GetStatus(s, "fp", f) THEN << >> ELSE << s.fpObjs[f] >>, f)

-----------------------------------------------------------------------------
(* Start of UpdateNetlist *)

\* BOARD_NETLIST_UPDATER::cacheCopperZoneConnections
RECURSIVE cacheZonesFrom(_, _)
cacheZonesFrom(s, z) ==
    IF z > Len(s.zones) THEN s
    ELSE IF ~s.zones[z].onCopper \/ s.zones[z].ruleArea
         THEN cacheZonesFrom(s, z + 1)
         ELSE cacheZonesFrom([s EXCEPT !.zoneCache = Put(@, z, s.conn[z])], z + 1)

cacheCopperZoneConnections(s) == cacheZonesFrom(s, 1)

\* lines 765-778
Initialize(s, aNetlist) ==
    cacheCopperZoneConnections(
        [s EXCEPT !.netlist = aNetlist,
                  !.errorCount = 0, !.warningCount = 0, !.newFootprintsCount = 0,
                  !.footprintMap = EmptyMap,
                  !.lastPreexisting = IF s.footprints # << >>
                                      THEN s.footprints[Len(s.footprints)]
                                      ELSE NullId,
                  !.reports = << >>, !.syncLog = << >>])

\* a slip: <no net> becomes stale like the others
StaleFlagNever(net) == FALSE

\* lines 783-789: every registered net but <no net> becomes stale
StaleFlag(net) == net.code = 0

MarkAllStale(s) ==
    IF ~s.opts.isDryRun
    THEN [s EXCEPT !.nets = [n \in DOMAIN s.nets |->
                                IF n \in s.netInfo
                                THEN [s.nets[n] EXCEPT !.isCurrent = StaleFlag(s.nets[n])]
                                ELSE s.nets[n]]]
    ELSE s

-----------------------------------------------------------------------------
(* The component loop, lines 794-860 *)

IsMatch(s, f, comp) ==
    IF s.opts.lookupByTimestamp
    THEN s.fpObjs[f].path = comp.path
    ELSE CmpNoCaseEq(s.fpObjs[f].ref, comp.ref)

\* lines 826 and 848
RecordFootprint(s, ci, f) ==
    [s EXCEPT !.footprintMap = Put(@, ci, f), !.syncLog = Append(@, << ci, f >>)]

\* lines 826-829 and 848-851: record the footprint of the component and
\* synchronise it
SyncFootprint(s, ci, f) ==
    updateComponentPadConnections(
        updateFootprintParameters(RecordFootprint(s, ci, f), f, s.netlist[ci]),
        f, s.netlist[ci])

\* lines 824-830 and 846-852: tmp (footprint) is in .ret
SyncIfAny(s, ci) ==
    IF s.ret # NullId THEN SyncFootprint(s, ci, s.ret) ELSE s

\* lines 819-822: tmp is in .ret
ReplaceIfWanted(s, f, comp) ==
    IF s.opts.replaceFootprints /\ comp.fpid # s.fpObjs[f].fpid
    THEN replaceComponent(s, f, comp)
    ELSE [s EXCEPT !.ret = f]

\* lines 817-833: one matching footprint; .count is matchCount
MatchedFootprint(s, ci, f) ==
    [SyncIfAny(ReplaceIfWanted(s, f, s.netlist[ci]), ci) EXCEPT !.count = s.count + 1]

\* a slip: the scan takes the first match only
ScanOneFirstOnly(s, ci, f) ==
    IF IsMatch(s, f, s.netlist[ci])
    THEN IF s.count = 0 THEN MatchedFootprint(s, ci, f) ELSE [s EXCEPT !.count = @ + 1]
    ELSE s

\* lines 810-833
ScanOne(s, ci, f) ==
    IF IsMatch(s, f, s.netlist[ci]) THEN MatchedFootprint(s, ci, f) ELSE s

\* lines 808-840: the scan of the board's footprints
RECURSIVE ScanFootprints(_, _, _)
RECURSIVE ScanNext(_, _, _)
ScanNext(s, ci, j) ==
    IF s.footprints[j] = s.lastPreexisting THEN s
    ELSE ScanFootprints(s, ci, j + 1)

ScanFootprints(s, ci, j) ==
    IF j > Len(s.footprints) THEN s
    ELSE ScanNext(ScanOne(s, ci, s.footprints[j]), ci, j)

\* lines 842-859
AfterScan(s, ci) ==
    IF s.count = 0
    THEN SyncIfAny(addNewComponent(s, s.netlist[ci]), ci)
    ELSE IF s.count > 1
    THEN Report(s, "error", << "Multiple footprints found", s.netlist[ci].ref >>)
    ELSE s

\* the body of the component loop for component ci
ProcessComponent(s, ci) ==
    IF Has(s.netlist[ci].props, "exclude_from_board") THEN s
    ELSE AfterScan(
             ScanFootprints(
                 [Report(s, "info", << "Processing symbol", s.netlist[ci].ref,
                                       s.netlist[ci].fpid >>)
                    EXCEPT !.count = 0],
                 ci, 1),
             ci)

-----------------------------------------------------------------------------
(* Zone and via repair, lines 514-637 *)

netlistNetnames(aNetlist) ==
    UNION { { aNetlist[c].pins[j].net : j \in DOMAIN aNetlist[c].pins } :
            c \in DOMAIN aNetlist }

\* lines 554-557 and 614-617: the net object of a repaired via or zone
RepairTarget(s, name) ==
    IF FindNet(s, name) # NullId THEN [s EXCEPT !.ret = FindNet(s, name)]
    ELSE IF Has(s.addedNets, name) THEN [s EXCEPT !.ret = s.addedNets[name]]
    ELSE [s EXCEPT !.addedNets = Put(@, name, NullId), !.ret = NullId]

\* lines 559-563
RebindVia(s, t) ==
    IF s.ret # NullId /\ s.ret # DryNet
    THEN [Stage(s, "modify", "track", t) EXCEPT !.tracks[t].net = s.ret]
    ELSE s

\* lines 545-572
RepairViaTo(s, t, name, updated) ==
    IF updated # ""
    THEN IF ~s.opts.isDryRun
         THEN RebindVia(RepairTarget(Report(s, "action", << "Reconnect via", name, updated >>),
                                     updated), t)
         ELSE Report(s, "action", << "Reconnect via", name, updated >>)
    ELSE [Report(s, "warning", << "Via connected to unknown net", name >>)
            EXCEPT !.warningCount = @ + 1]

\* a slip: the net names of the netlist are not asked
RepairViaLiveToo(s, t, name) ==
    RepairViaTo(s, t, name, IF Has(s.oldToNew, name) THEN s.oldToNew[name] ELSE "")

\* lines 534-573: one via
RepairVia(s, t, name) ==
    IF name \in netlistNetnames(s.netlist) THEN s
    ELSE RepairViaTo(s, t, name, IF Has(s.oldToNew, name) THEN s.oldToNew[name] ELSE "")

RECURSIVE RepairVias(_, _)
RepairVias(s, t) ==
    IF t > Len(s.tracks) THEN s
    ELSE IF ~s.tracks[t].isVia THEN RepairVias(s, t + 1)
    ELSE RepairVias(RepairVia(s, t, s.nets[s.tracks[t].net].name), t + 1)

\* lines 589-596: the first cached pad whose net name differs from the zone's
RECURSIVE FirstDifferingPad(_, _, _, _)
FirstDifferingPad(s, pads, name, j) ==
    IF j > Len(pads) THEN ""
    ELSE IF getNetname(s, pads[j]) # name THEN getNetname(s, pads[j])
    ELSE FirstDifferingPad(s, pads, name, j + 1)

\* lines 619-623
RebindZone(s, z) ==
    IF s.ret # NullId /\ s.ret # DryNet
    THEN [Stage(s, "modify", "zone", z) EXCEPT !.zones[z].net = s.ret]
    ELSE s

\* lines 605-632
RepairZoneTo(s, z, name, updated) ==
    IF updated # ""
    THEN IF ~s.opts.isDryRun
         THEN RebindZone(RepairTarget(Report(s, "action", << "Reconnect copper zone", name,
                                                             updated >>),
                                      updated), z)
         ELSE Report(s, "action", << "Reconnect copper zone", name, updated >>)
    ELSE [Report(s, "warning", << "Copper zone has no pads connected", name >>)
            EXCEPT !.warningCount = @ + 1]

\* a slip: the rename map is asked first
ZoneUpdatedNetnameMapFirst(s, name, byPad) ==
    IF Has(s.oldToNew, name) THEN s.oldToNew[name] ELSE byPad

\* lines 598-603: the rename map is asked when no cached pad gave a name
ZoneUpdatedNetname(s, name, byPad) ==
    IF byPad = "" /\ Has(s.oldToNew, name) THEN s.oldToNew[name] ELSE byPad

\* lines 582-633: one copper zone
RepairZone(s, z, name) ==
    IF name \in netlistNetnames(s.netlist) THEN s
    ELSE RepairZoneTo(s, z, name,
             ZoneUpdatedNetname(s, name,
                 FirstDifferingPad(s, IF Has(s.zoneCache, z) THEN s.zoneCache[z] ELSE << >>,
                                   name, 1)))

RECURSIVE RepairZones(_, _)
RepairZones(s, z) ==
    IF z > Len(s.zones) THEN s
    ELSE IF ~s.zones[z].onCopper \/ s.zones[z].ruleArea THEN RepairZones(s, z + 1)
    ELSE RepairZones(RepairZone(s, z, s.nets[s.zones[z].net].name), z + 1)

updateCopperZoneNets(s) == RepairZones(RepairVias(s, 1), 1)

-----------------------------------------------------------------------------
(* The sweep of the footprints without a component, lines 867-909 *)

\* NETLIST::GetComponentByReference / GetComponentByPath: the index of the
\* first component with that reference (path), or NullId
RECURSIVE FirstComponent(_, _, _, _)
FirstComponent(aNetlist, field, value, c) ==
    IF c > Len(aNetlist) THEN NullId
    ELSE IF aNetlist[c][field] = value THEN c
    ELSE FirstComponent(aNetlist, field, value, c + 1)

GetComponentByReference(aNetlist, ref) == FirstComponent(aNetlist, "ref", ref, 1)

GetComponentByPath(aNetlist, path) == FirstComponent(aNetlist, "path", path, 1)

\* lines 876-879
SweepComponent(s, f) ==
    IF s.opts.lookupByTimestamp
    THEN GetComponentByPath(s.netlist, s.fpObjs[f].path)
    ELSE GetComponentByReference(s.netlist, s.fpObjs[f].ref)

\* a slip: any component found keeps the footprint
KeptByAnyComponent(s, c) == c # NullId

\* a slip: no component keeps the footprint
KeptByNoComponent(s, c) == FALSE

\* lines 881-882
KeptByComponent(s, c) ==
    c # NullId /\ ~Has(s.netlist[c].props, "exclude_from_board")

\* line 871: a board-only footprint is never a candidate
IsBoardOnly(fp) == HasBit(fp.attrs, FP_BOARD_ONLY)

\* lines 869-883: doDelete before the lock test
WantsDelete(s, f) ==
    /\ s.opts.deleteUnusedComponents
    /\ ~IsBoardOnly(s.fpObjs[f])
    /\ ~KeptByComponent(s, SweepComponent(s, f))

\* lines 903-907: the nets of the pads of a kept footprint are current
MarkPadNetsCurrent(s, f) ==
    [s EXCEPT !.nets = [n \in DOMAIN s.nets |->
                           IF \E k \in DOMAIN s.fpObjs[f].pads : s.fpObjs[f].pads[k].net = n
                           THEN [s.nets[n] EXCEPT !.isCurrent = TRUE]
                           ELSE s.nets[n]]]

\* lines 901-908
KeepFootprint(s, f) ==
    IF ~s.opts.isDryRun THEN MarkPadNetsCurrent(s, f) ELSE s

\* lines 893-900
RemoveFootprint(s, f) ==
    IF ~s.opts.isDryRun THEN Stage(s, "remove", "fp", f) ELSE s

\* a slip: the lock is not looked at
IsLockedNever(fp) == FALSE

\* lines 885-891: a locked footprint stays
IsLocked(fp) == fp.locked

\* the body of the sweep for one footprint
SweepFootprint(s, f) ==
    IF WantsDelete(s, f) /\ IsLocked(s.fpObjs[f])
    THEN KeepFootprint(Report(s, "warning", << "Cannot remove unused footprint (locked)",
                                               s.fpObjs[f].ref >>), f)
    ELSE IF WantsDelete(s, f)
    THEN RemoveFootprint(Report(s, "action", << "Remove unused footprint",
                                                s.fpObjs[f].ref >>), f)
    ELSE KeepFootprint(s, f)

RECURSIVE SweepFrom(_, _)
SweepFrom(s, j) ==
    IF j > Len(s.footprints) THEN s
    ELSE SweepFrom(SweepFootprint(s, s.footprints[j]), j + 1)

SweepUnused(s) == SweepFrom(s, 1)

-----------------------------------------------------------------------------
(* Connectivity: rebuild and validation *)

\* BOARD::GetPads: the pads of the footprints on the board, in board order
RECURSIVE PadsFrom(_, _)
PadsFrom(s, j) ==
    IF j > Len(s.footprints) THEN << >>
    ELSE [k \in DOMAIN s.fpObjs[s.footprints[j]].pads |-> << s.footprints[j], k >>]
         \o PadsFrom(s, j + 1)

GetPads(s) == PadsFrom(s, 1)

\* CONNECTIVITY_DATA::Build: a zone is connected to the pads of the board
\* that touch it and carry its net
RECURSIVE SamePadsFrom(_, _, _)
SamePadsFrom(s, z, j) ==
    IF j > Len(s.zones[z].touch) THEN << >>
    ELSE IF s.zones[z].touch[j][1] \in Range(s.footprints)
            /\ PadOf(s, s.zones[z].touch[j]).net = s.zones[z].net
         THEN << s.zones[z].touch[j] >> \o SamePadsFrom(s, z, j + 1)
         ELSE SamePadsFrom(s, z, j + 1)

ConnectedPads(s) == [z \in DOMAIN s.zones |-> SamePadsFrom(s, z, 1)]

BuildConnectivity(s) == [s EXCEPT !.conn = ConnectedPads(s)]

\* FOOTPRINT::FindPadByName
FindPadByName(fp, name) == \E k \in DOMAIN fp.pads : fp.pads[k].name = name

\* a slip: the orphaned pin is reported and not counted
RECURSIVE TestPinsUncounted(_, _, _, _)
TestPinsUncounted(s, c, f, j) ==
    IF j > Len(s.netlist[c].pins) THEN s
    ELSE IF FindPadByName(s.fpObjs[f], s.netlist[c].pins[j].pin)
    THEN TestPinsUncounted(s, c, f, j + 1)
    ELSE TestPinsUncounted(Report(s, "error", << "pad not found", s.netlist[c].ref,
                                                 s.netlist[c].pins[j].pin, s.fpObjs[f].fpid >>),
                           c, f, j + 1)

\* lines 741-756: the pins of one component
RECURSIVE TestPins(_, _, _, _)
TestPins(s, c, f, j) ==
    IF j > Len(s.netlist[c].pins) THEN s
    ELSE IF FindPadByName(s.fpObjs[f], s.netlist[c].pins[j].pin)
    THEN TestPins(s, c, f, j + 1)
    ELSE TestPins([Report(s, "error", << "pad not found", s.netlist[c].ref,
                                         s.netlist[c].pins[j].pin, s.fpObjs[f].fpid >>)
                     EXCEPT !.errorCount = @ + 1], c, f, j + 1)

RECURSIVE TestComponents(_, _)
TestComponents(s, c) ==
    IF c > Len(s.netlist) THEN s
    ELSE IF ~Has(s.footprintMap, c) THEN TestComponents(s, c + 1)
    ELSE TestComponents(TestPins(s, c, s.footprintMap[c], 1), c + 1)

testConnectivity(s) == TestComponents(s, 1)

-----------------------------------------------------------------------------
(* Single-pad-net pruning, lines 640-720 *)

\* std::sort by net name
RECURSIVE InsertPad(_, _, _)
InsertPad(s, sorted, p) ==
    IF sorted = << >> THEN << p >>
    ELSE IF NameLess(getNetname(s, p), getNetname(s, Head(sorted)))
         THEN << p >> \o sorted
         ELSE << Head(sorted) >> \o InsertPad(s, Tail(sorted), p)

RECURSIVE SortPads(_, _)
SortPads(s, pads) ==
    IF pads = << >> THEN << >>
    ELSE InsertPad(s, SortPads(s, Tail(pads)), Head(pads))

\* a slip: a rule area counts as copper of the net
ZoneOnNetRuleAreasToo(s, name) ==
    \E z \in DOMAIN s.zones :
        /\ s.zones[z].onCopper
        /\ s.nets[s.zones[z].net].name = name

\* lines 671-684: a copper zone, no rule area, carries the net name
ZoneOnNet(s, name) ==
    \E z \in DOMAIN s.zones :
        /\ s.zones[z].onCopper
        /\ ~s.zones[z].ruleArea
        /\ s.nets[s.zones[z].net].name = name

\* lines 692-695 and 713-716
ClearPadNet(s, p) ==
    IF ~s.opts.isDryRun
    THEN [s EXCEPT !.fpObjs[p[1]].pads[p[2]].net = FindNetByCode(s, UNCONNECTED)]
    ELSE cacheNetname(s, p, "")

\* lines 686-696
RemoveSinglePadNet(s, p) ==
    ClearPadNet(Report(s, "action", << "Remove single pad net", getNetname(s, p) >>), p)

\* lines 666-697: the end of a net-name group
EndOfNet(s) ==
    IF s.previouspad # NoPad /\ s.count = 1
    THEN IF ZoneOnNet(s, getNetname(s, s.previouspad))
         THEN s
         ELSE RemoveSinglePadNet(s, s.previouspad)
    ELSE s

\* lines 659-708: the loop over the sorted pads
RECURSIVE PruneLoop(_, _, _)
PruneLoop(s, padlist, j) ==
    IF j > Len(padlist) THEN s
    ELSE IF getNetname(s, padlist[j]) = "" THEN PruneLoop(s, padlist, j + 1)
    ELSE IF s.netname # getNetname(s, padlist[j])
    THEN PruneLoop([EndOfNet(s) EXCEPT !.netname = getNetname(s, padlist[j]),
                                       !.count = 1, !.previouspad = padlist[j]],
                   padlist, j + 1)
    ELSE PruneLoop([s EXCEPT !.count = @ + 1, !.previouspad = padlist[j]],
                   padlist, j + 1)

\* lines 710-717
ExamineLastPad(s) ==
    IF s.count = 1 THEN ClearPadNet(s, s.previouspad) ELSE s

\* lines 649-717 on the sorted pad list
PruneSorted(s) == ExamineLastPad(PruneLoop(s, SortPads(s, GetPads(s)), 1))

deleteSinglePadNets(s) ==
    PruneSorted([s EXCEPT !.count = 0, !.netname = "", !.previouspad = NoPad])

-----------------------------------------------------------------------------
(* Stale-net removal and the commit, lines 920-931 *)

\* the registered nets in the order of their codes
RECURSIVE NetsByCode(_, _)
NetsByCode(s, ids) ==
    IF ids = {} THEN << >>
    ELSE LET n == CHOOSE x \in ids : \A y \in ids : s.nets[x].code <= s.nets[y].code
         IN  << n >> \o NetsByCode(s, ids \ {n})

\* lines 920-928
RECURSIVE ReportStale(_, _, _)
ReportStale(s, order, j) ==
    IF j > Len(order) THEN s
    ELSE IF s.nets[order[j]].isCurrent THEN ReportStale(s, order, j + 1)
    ELSE ReportStale(Stage(Report(s, "action", << "Remove unused net",
                                                  s.nets[order[j]].name >>),
                           "removed", "net", order[j]),
                     order, j + 1)

\* NETINFO_LIST::RemoveUnusedNets: only the current nets stay registered
KeepNet(net) == net.isCurrent

RemoveUnusedNets(s) ==
    [s EXCEPT !.netInfo = { n \in s.netInfo : KeepNet(s.nets[n]) }]

\* NETINFO_LIST::AppendNet: register a net under the first free net code
FreeNetCode(s) ==
    CHOOSE c \in 1..(Cardinality(s.netInfo) + 1) :
        /\ \A n \in s.netInfo : s.nets[n].code # c
        /\ \A d \in 1..(c - 1) : \E n \in s.netInfo : s.nets[n].code = d

AppendNet(s, id) ==
    [s EXCEPT !.nets[id].code = FreeNetCode(s), !.netInfo = @ \cup {id}]

\* BOARD_COMMIT::Push: the staged additions and removals reach the board
ApplyChange(s, ch) ==
    IF ch.kind = "fp" /\ ch.op = "add"
    THEN [s EXCEPT !.footprints = IF ch.id \in Range(@) THEN @ ELSE Append(@, ch.id)]
    ELSE IF ch.kind = "fp" /\ ch.op = "remove"
    THEN [s EXCEPT !.footprints = RemoveFromSeq(@, ch.id)]
    ELSE IF ch.kind = "net" /\ ch.op = "add"
    THEN AppendNet(s, ch.id)
    ELSE s

RECURSIVE ApplyChanges(_, _)
ApplyChanges(s, j) ==
    IF j > Len(s.commit) THEN s
    ELSE ApplyChanges(ApplyChange(s, s.commit[j]), j + 1)

Push(s) == BuildConnectivity([ApplyChanges(s, 1) EXCEPT !.commit = << >>])

RemoveStaleAndPush(s) ==
    Push(RemoveUnusedNets(ReportStale(s, NetsByCode(s, s.netInfo), 1)))

\* lines 941-947
ClearAddedNets(s) ==
    IF s.opts.isDryRun THEN [s EXCEPT !.addedNets = EmptyMap] ELSE s

\* lines 953-954
ReportTotals(s) ==
    ReportTail(s, "info", << "Total warnings and errors", s.warningCount, s.errorCount >>)

\* lines 941-954
Finish(s) ==
    ReportTotals(ReportTail(ReportTail(ClearAddedNets(s), "action", << "" >>),
                            "action", << "" >>))

-----------------------------------------------------------------------------
(* The boards, the netlists and the options the model explores *)

Net(name, code) == [name |-> name, code |-> code, isCurrent |-> TRUE]

Pad(name, net, copper) ==
    [name |-> name, pinFunction |-> "", pinType |-> "", net |-> net,
     onCopper |-> copper]

Fp(ref, value, path, fpid, attrs, locked, pads) ==
    [ref |-> ref, value |-> value, path |-> path, props |-> EmptyMap,
     attrs |-> attrs, locked |-> locked, fpid |-> fpid, pos |-> << 0, 0 >>,
     pads |-> pads]

Zone(net, copper, ruleArea, touch) ==
    [net |-> net, onCopper |-> copper, ruleArea |-> ruleArea, touch |-> touch]

Track(isVia, net) == [isVia |-> isVia, net |-> net]

Pin(pin, net, func, type) == [pin |-> pin, net |-> net, func |-> func, type |-> type]

Comp(ref, value, fpid, path, props, pins) ==
    [ref |-> ref, value |-> value, fpid |-> fpid, path |-> path, props |-> props,
     pins |-> pins]

Flag(key) == [k \in {key} |-> "1"]

PageA4 == [pageW |-> 297 * IU_PER_MM, pageH |-> 210 * IU_PER_MM]

NoOutline ==
    [pageW |-> PageA4.pageW, pageH |-> PageA4.pageH, drawings |-> FALSE,
     bbox |-> [w |-> 0, h |-> 0, cx |-> 0, bottom |-> 0]]

Outline ==
    [pageW |-> PageA4.pageW, pageH |-> PageA4.pageH, drawings |-> TRUE,
     bbox |-> [w |-> 40 * IU_PER_MM, h |-> 30 * IU_PER_MM, cx |-> 100 * IU_PER_MM,
               bottom |-> 80 * IU_PER_MM]]

\* nets 1: <no net>, 2: N1, 3: N2
BoardEmpty ==
    [footprints |-> << >>, fpObjs |-> << >>, nets |-> << Net("", 0) >>,
     netInfo |-> {1}, zones |-> << >>, tracks |-> << >>, geom |-> NoOutline]

BoardVia ==
    [footprints |-> << >>, fpObjs |-> << >>,
     nets |-> << Net("", 0), Net("N1", 1) >>, netInfo |-> {1, 2},
     zones |-> << >>, tracks |-> << Track(TRUE, 2) >>, geom |-> Outline]

BoardMain ==
    [footprints |-> << 1, 2 >>,
     fpObjs |-> << Fp("R1", "10k", "p1", "lib:A", 0, FALSE,
                      << Pad("1", 2, TRUE), Pad("2", 3, TRUE) >>),
                   Fp("U1", "IC", "p2", "lib:A", 0, TRUE,
                      << Pad("1", 3, TRUE), Pad("2", 1, TRUE) >>) >>,
     nets |-> << Net("", 0), Net("N1", 1), Net("N2", 2) >>, netInfo |-> {1, 2, 3},
     zones |-> << Zone(2, TRUE, FALSE, << << 1, 1 >> >>),
                  Zone(3, TRUE, TRUE, << >>) >>,
     tracks |-> << Track(TRUE, 2), Track(FALSE, 3) >>, geom |-> Outline]

BoardDup ==
    [footprints |-> << 1, 2, 3 >>,
     fpObjs |-> << Fp("R1", "10k", "p1", "lib:A", 0, FALSE,
                      << Pad("1", 2, TRUE), Pad("2", 1, TRUE) >>),
                   Fp("r1", "22k", "p1", "lib:A", 0, FALSE,
                      << Pad("1", 1, TRUE), Pad("2", 2, TRUE) >>),
                   Fp("H1", "hole", "p3", "lib:B", FP_BOARD_ONLY, TRUE,
                      << Pad("", 1, TRUE) >>) >>,
     nets |-> << Net("", 0), Net("N1", 1) >>, netInfo |-> {1, 2},
     zones |-> << Zone(2, TRUE, FALSE, << << 1, 1 >>, << 2, 2 >> >>) >>,
     tracks |-> << >>, geom |-> Outline]

Boards == { BoardEmpty, BoardVia, BoardMain, BoardDup }

R1a == Comp("R1", "10k", "lib:A", "p1", EmptyMap,
            << Pin("1", "N2", "IN", "input"), Pin("2", "N2", "OUT", "output") >>)

R1b == Comp("R1", "22k", "lib:A", "p1", Flag("exclude_from_bom"),
            << Pin("1", "N1", "IN", "input"), Pin("2", "N3", "", "passive") >>)

R1x == Comp("R1", "10k", "lib:A", "p1", Flag("exclude_from_board"),
            << Pin("1", "N1", "", "") >>)

R1o == Comp("R1", "10k", "lib:A", "p1", EmptyMap,
            << Pin("1", "N1", "", ""), Pin("9", "N2", "", "") >>)

U1b == Comp("U1", "IC", "lib:B", "p2", EmptyMap,
            << Pin("1", "N1", "A", "input"), Pin("3", "N3", "B", "input") >>)

R2n == Comp("R2", "1k", "lib:A", "p4", EmptyMap,
            << Pin("1", "N1", "", ""), Pin("2", "N1", "", "") >>)

\* R1 with its two pins on two nets the board does not have on these pads
R1c == Comp("R1", "10k", "lib:A", "p1", EmptyMap,
            << Pin("1", "N2", "", ""), Pin("2", "N3", "", "") >>)

\* R1 without a pin for pad 1
R1p == Comp("R1", "10k", "lib:A", "p1", EmptyMap, << Pin("2", "N2", "", "") >>)

\* a second symbol whose reference differs from R2 in case only
R2l == Comp("r2", "1k", "lib:A", "p7", EmptyMap, << Pin("1", "N1", "", "") >>)

\* R1 with a footprint identifier the library does not have
R1m == Comp("R1", "10k", "lib:none", "p1", EmptyMap,
            << Pin("1", "N2", "", ""), Pin("2", "N2", "", "") >>)

\* R1 with a pin for pad 1 only, and U1 without pins
R1s == Comp("R1", "10k", "lib:A", "p1", EmptyMap, << Pin("1", "N1", "", "") >>)

U1n == Comp("U1", "IC", "lib:A", "p2", EmptyMap, << >>)

R3e == Comp("R3", "1k", "", "p5", EmptyMap, << Pin("1", "N1", "", "") >>)

R4m == Comp("R4", "1k", "lib:none", "p6", EmptyMap, << Pin("1", "N2", "", "") >>)

\* number of components of a netlist
MaxComponents == 2

AllNetlists ==
    { << >>, << R1a >>, << R1b >>, << R1x >>, << R1c >>, << R1p >>, << R1m >>, << R2n >>,
      << U1b >>,
      << R1a, U1b >>,
      << R2n, R2l >>,
      << R1s, U1n >>,
      << R1b, R2n >>, << R1o, R4m >>, << R3e, R2n >>, << R1b, U1b, R2n >>,
      << R3e, R1a, R1x >> }

Netlists == { n \in AllNetlists : Len(n) <= MaxComponents }

OptionNames ==
    { "deleteSinglePadNets", "deleteUnusedComponents", "isDryRun",
      "replaceFootprints", "lookupByTimestamp", "warnForNoNetPads" }

Options == [OptionNames -> BOOLEAN]

\* lines 60-65: the options a new updater has
DefaultOptions ==
    [deleteSinglePadNets |-> TRUE, deleteUnusedComponents |-> FALSE,
     isDryRun |-> FALSE, replaceFootprints |-> TRUE,
     lookupByTimestamp |-> FALSE, warnForNoNetPads |-> FALSE]

\* the boards, netlists and options of the call sequences of SpecSeq
SeqBoards == { BoardMain }

SeqNetlists == { << R1a >>, << R1b >>, << >> }

SeqOptions ==
    { o \in Options : /\ ~o.isDryRun /\ ~o.lookupByTimestamp /\ ~o.warnForNoNetPads
                      /\ o.replaceFootprints /\ ~o.deleteUnusedComponents }

-----------------------------------------------------------------------------
(* Initial states *)

Snapshot ==
    [footprints |-> footprints, fpObjs |-> fpObjs, nets |-> nets,
     netInfo |-> netInfo, zones |-> zones, tracks |-> tracks, opts |-> opts]

NoCall == [valid |-> FALSE]

InitWith(board) ==
    /\ footprints = board.footprints
    /\ fpObjs = board.fpObjs
    /\ nets = board.nets
    /\ netInfo = board.netInfo
    /\ zones = board.zones
    /\ tracks = board.tracks
    /\ conn = ConnectedPads(board)
    /\ geom = board.geom
    /\ opts = DefaultOptions
    /\ oldToNew = EmptyMap
    /\ padNets = EmptyMap
    /\ padPinFunctions = EmptyMap
    /\ addedNets = EmptyMap
    /\ zoneCache = EmptyMap
    /\ warningCount = 0
    /\ errorCount = 0
    /\ newFootprintsCount = 0
    /\ commit = << >>
    /\ pc = "idle"
    /\ netlist = << >>
    /\ idx = 0
    /\ lastPreexisting = NullId
    /\ footprintMap = EmptyMap
    /\ reports = << >>
    /\ syncLog = << >>
    /\ phaseLog = << >>
    /\ before = NoCall
    /\ prevCall = NoCall
    /\ runs = 0

\* no call of the sliver checker is running
NoSliverRun ==
    /\ layerCount = 0
    /\ parallelThreadCount = 0
    /\ next = 0
    /\ done = 0
    /\ threads_finished = 0
    /\ layerPolys = << >>
    /\ cancelled = FALSE
    /\ mainPc = "idle"
    /\ mainIi = 0
    /\ workerPc = << >>
    /\ workerI = << >>
    /\ obtained = << >>
    /\ readLog = << >>

\* aSymbol is a null pointer
NoSymbol == [null |-> TRUE]

\* no call of CheckLibSymbol is running
NoSymbolCheck ==
    /\ aSymbol = NoSymbol
    /\ pinList = << >>
    /\ aMessages = << >>
    /\ checkPc = "idle"
    /\ ii = 0
    /\ pinReads = {}

Init == (\E board \in Boards : InitWith(board)) /\ NoSliverRun /\ NoSymbolCheck

InitSeq == (\E board \in SeqBoards : InitWith(board)) /\ NoSliverRun /\ NoSymbolCheck

-----------------------------------------------------------------------------
(* Actions *)

\* the variables an operator over State may change
Install(s) ==
    /\ footprints' = s.footprints
    /\ fpObjs' = s.fpObjs
    /\ nets' = s.nets
    /\ netInfo' = s.netInfo
    /\ zones' = s.zones
    /\ tracks' = s.tracks
    /\ conn' = s.conn
    /\ oldToNew' = s.oldToNew
    /\ padNets' = s.padNets
    /\ padPinFunctions' = s.padPinFunctions
    /\ addedNets' = s.addedNets
    /\ zoneCache' = s.zoneCache
    /\ warningCount' = s.warningCount
    /\ errorCount' = s.errorCount
    /\ newFootprintsCount' = s.newFootprintsCount
    /\ commit' = s.commit
    /\ netlist' = s.netlist
    /\ lastPreexisting' = s.lastPreexisting
    /\ footprintMap' = s.footprintMap
    /\ reports' = s.reports
    /\ syncLog' = s.syncLog
    /\ UNCHANGED << geom, opts >>

Step(s, phase, target) ==
    /\ Install(s)
    /\ phaseLog' = Append(phaseLog, phase)
    /\ pc' = target
    /\ UNCHANGED << before, prevCall, runs >>
    /\ UNCHANGED << sliverVars, symbolVars >>

\* the option setters, called before the first UpdateNetlist
Configure(o) ==
    /\ pc = "idle"
    /\ runs = 0
    /\ opts' = o
    /\ UNCHANGED << footprints, fpObjs, nets, netInfo, zones, tracks, conn, geom,
                    oldToNew, padNets, padPinFunctions, addedNets, zoneCache,
                    warningCount, errorCount, newFootprintsCount, commit, pc,
                    netlist, idx, lastPreexisting, footprintMap, reports, syncLog,
                    phaseLog, before, prevCall, runs >>
    /\ UNCHANGED << sliverVars, symbolVars >>

\* SetIsDryRun, called between two UpdateNetlist calls
SetIsDryRun(b) ==
    /\ pc = "idle"
    /\ runs > 0
    /\ opts' = [opts EXCEPT !.isDryRun = b]
    /\ UNCHANGED << footprints, fpObjs, nets, netInfo, zones, tracks, conn, geom,
                    oldToNew, padNets, padPinFunctions, addedNets, zoneCache,
                    warningCount, errorCount, newFootprintsCount, commit, pc,
                    netlist, idx, lastPreexisting, footprintMap, reports, syncLog,
                    phaseLog, before, prevCall, runs >>
    /\ UNCHANGED << sliverVars, symbolVars >>

\* lines 53-70: a new updater for the same board takes the place of the old
\* one and is given the same options
NewUpdater ==
    /\ pc = "idle"
    /\ runs > 0
    /\ oldToNew' = EmptyMap
    /\ padNets' = EmptyMap
    /\ padPinFunctions' = EmptyMap
    /\ addedNets' = EmptyMap
    /\ zoneCache' = EmptyMap
    /\ warningCount' = 0
    /\ errorCount' = 0
    /\ newFootprintsCount' = 0
    /\ commit' = << >>
    /\ UNCHANGED << footprints, fpObjs, nets, netInfo, zones, tracks, conn, geom,
                    opts, pc, netlist, idx, lastPreexisting, footprintMap, reports,
                    syncLog, phaseLog, before, prevCall, runs >>
    /\ UNCHANGED << sliverVars, symbolVars >>

\* UpdateNetlist is called: lines 765-778
Begin(aNetlist, limit) ==
    /\ pc = "idle"
    /\ runs < limit
    /\ Install(Initialize(State, aNetlist))
    /\ pc' = "markStale"
    /\ idx' = 1
    /\ phaseLog' = << "initialize" >>
    /\ before' = [Snapshot EXCEPT !.opts = opts] @@ [valid |-> TRUE]
    /\ prevCall' = IF runs = 0 THEN NoCall
                   ELSE [valid |-> TRUE, netlist |-> netlist, opts |-> before.opts]
    /\ runs' = runs + 1
    /\ UNCHANGED << sliverVars, symbolVars >>

DoMarkAllStale ==
    /\ pc = "markStale"
    /\ Step(MarkAllStale(State), "markAllStale", "components")
    /\ UNCHANGED idx

\* a slip: UpdateNetlist returns at the first component that raises an error
DoComponentAbortsOnError ==
    /\ pc = "components"
    /\ idx <= Len(netlist)
    /\ Step(ProcessComponent(State, idx), "component",
            IF ProcessComponent(State, idx).errorCount > errorCount
            THEN "idle" ELSE "components")
    /\ idx' = idx + 1

DoComponent ==
    /\ pc = "components"
    /\ idx <= Len(netlist)
    /\ Step(ProcessComponent(State, idx), "component", "components")
    /\ idx' = idx + 1

DoZones ==
    /\ pc = "components"
    /\ idx > Len(netlist)
    /\ Step(updateCopperZoneNets(State), "zoneViaRepair", "sweep")
    /\ UNCHANGED idx

\* a slip: the connectivity is not rebuilt and not validated
DoSweepThenPrune ==
    /\ pc = "sweep"
    /\ Step(SweepUnused(State), "sweep", "prune")
    /\ UNCHANGED idx

DoSweep ==
    /\ pc = "sweep"
    /\ Step(SweepUnused(State), "sweep", IF opts.isDryRun THEN "prune" ELSE "connectivity")
    /\ UNCHANGED idx

\* lines 913-914
DoConnectivity ==
    /\ pc = "connectivity"
    /\ Step(testConnectivity(BuildConnectivity(State)), "connectivity", "prune")
    /\ UNCHANGED idx

\* a slip: a dry run prunes although the pass counted new footprints
RunsPruneAlways(s) == s.opts.deleteSinglePadNets

\* lines 917-918 and 933-939
RunsPrune(s) ==
    IF ~s.opts.isDryRun
    THEN s.opts.deleteSinglePadNets
    ELSE s.opts.deleteSinglePadNets /\ s.newFootprintsCount = 0

DoPrune ==
    /\ pc = "prune"
    /\ Step(IF RunsPrune(State) THEN deleteSinglePadNets(State) ELSE State,
            IF RunsPrune(State) THEN "prune" ELSE "noPrune",
            IF opts.isDryRun THEN "finish" ELSE "push")
    /\ UNCHANGED idx

DoPush ==
    /\ pc = "push"
    /\ Step(RemoveStaleAndPush(State), "push", "finish")
    /\ UNCHANGED idx

DoFinish ==
    /\ pc = "finish"
    /\ Step(Finish(State), "finish", "idle")
    /\ UNCHANGED idx

\* one UpdateNetlist call on a new updater
Next ==
    \/ \E o \in Options : Configure(o)
    \/ \E aNetlist \in Netlists : Begin(aNetlist, 1)
    \/ DoMarkAllStale
    \/ DoComponent
    \/ DoZones
    \/ DoSweep
    \/ DoConnectivity
    \/ DoPrune
    \/ DoPush
    \/ DoFinish

Spec == Init /\ [][Next]_vars

\* up to MaxRuns UpdateNetlist calls, on one updater or on a new one per call
NextSeq ==
    \/ \E o \in SeqOptions : Configure(o)
    \/ \E b \in BOOLEAN : SetIsDryRun(b)
    \/ NewUpdater
    \/ \E aNetlist \in SeqNetlists : Begin(aNetlist, MaxRuns)
    \/ DoMarkAllStale
    \/ DoComponent
    \/ DoZones
    \/ DoSweep
    \/ DoConnectivity
    \/ DoPrune
    \/ DoPush
    \/ DoFinish

SpecSeq == InitSeq /\ [][NextSeq]_vars

\* the steps of a running UpdateNetlist call
UpdateNetlist ==
    \/ DoMarkAllStale
    \/ DoComponent
    \/ DoZones
    \/ DoSweep
    \/ DoConnectivity
    \/ DoPrune
    \/ DoPush
    \/ DoFinish

\* UpdateNetlist is sequential code: a call that has started keeps running.
\* This is the weak fairness of the steps of the call, WF_vars(UpdateNetlist),
\* with ENABLED <<UpdateNetlist>>_vars written out: a step of the call is
\* enabled exactly at the positions of pc other than "idle", and every step
\* lengthens phaseLog.
CallRuns == []<>(pc = "idle") \/ []<><<UpdateNetlist>>_vars

SpecLive == Init /\ [][Next]_vars /\ CallRuns

\* UpdateNetlist has returned
Returned == pc = "idle" /\ runs > 0

-----------------------------------------------------------------------------
(* The copper sliver check: DRC_TEST_PROVIDER_SLIVER_CHECKER::Run, its main *)
(* thread and its worker threads                                           *)

\* most enabled copper layers of a board
MaxLayers == 2

\* most worker threads
MaxThreads == 3

\* lines 119-177: the worker threads that were started
Workers == DOMAIN workerPc

\* lines 90-91: the indices of copperLayers
Layers == 0..(layerCount - 1)

\* the zones, no rule areas, on the copper layer of index l
ZonesOnLayer(l) == (l + 1) % 2

\* Run is called: the board has its copper layers, the machine its threads
\* (line 117: at least two)
InitSliver ==
    /\ InitWith(BoardEmpty)
    /\ layerCount \in 0..MaxLayers
    /\ parallelThreadCount \in 2..MaxThreads
    /\ next = 0
    /\ done = 0
    /\ threads_finished = 0
    /\ layerPolys = << >>
    /\ cancelled = FALSE
    /\ mainPc = "start"
    /\ mainIi = 0
    /\ workerPc = << >>
    /\ workerI = << >>
    /\ obtained = << >>
    /\ readLog = << >>
    /\ NoSymbolCheck

\* lines 78-177: Run returns early (error limit, cancelled), or makes the
\* slots and the counters and starts the worker threads
RunStart ==
    /\ mainPc = "start"
    /\ \E early \in BOOLEAN :
           IF early
           THEN /\ mainPc' = "returned"
                /\ UNCHANGED << next, done, threads_finished, layerPolys, workerPc,
                                workerI, obtained >>
           ELSE /\ mainPc' = "wait"
                /\ layerPolys' = [l \in Layers |-> << >>]
                /\ next' = 0
                /\ done' = 1
                /\ threads_finished' = 0
                /\ workerPc' = [w \in 1..parallelThreadCount |-> "fetch"]
                /\ workerI' = [w \in 1..parallelThreadCount |-> 0]
                /\ obtained' = [l \in Layers |-> {}]
    /\ UNCHANGED << layerCount, parallelThreadCount, cancelled, mainIi, readLog >>
    /\ UNCHANGED << updaterVars, symbolVars >>

\* the user cancels the DRC while Run is at work
Cancel ==
    /\ mainPc \in { "wait", "read" }
    /\ ~cancelled
    /\ cancelled' = TRUE
    /\ UNCHANGED << layerCount, parallelThreadCount, next, done, threads_finished,
                    layerPolys, mainPc, mainIi, workerPc, workerI, obtained, readLog >>
    /\ UNCHANGED << updaterVars, symbolVars >>

\* a cursor that is read and incremented in two steps: the worker may take the
\* index another worker has just taken
WorkerFetchStale(w) ==
    /\ workerPc[w] = "fetch"
    /\ \E i \in { next, IF next > 0 THEN next - 1 ELSE next } :
           /\ workerI' = [workerI EXCEPT ![w] = i]
           /\ obtained' = IF i < layerCount
                          THEN [obtained EXCEPT ![i] = @ \cup {w}]
                          ELSE obtained
           /\ workerPc' = [workerPc EXCEPT ![w] = IF i < layerCount THEN "process"
                                                  ELSE "finish"]
    /\ next' = next + 1
    /\ UNCHANGED << layerCount, parallelThreadCount, done, threads_finished,
                    layerPolys, cancelled, mainPc, mainIi, readLog >>
    /\ UNCHANGED << updaterVars, symbolVars >>

\* line 124: i = next.fetch_add( 1 ) and the test i < layerCount
WorkerFetch(w) ==
    /\ workerPc[w] = "fetch"
    /\ workerI' = [workerI EXCEPT ![w] = next]
    /\ next' = next + 1
    /\ obtained' = IF next < layerCount
                   THEN [obtained EXCEPT ![next] = @ \cup {w}]
                   ELSE obtained
    /\ workerPc' = [workerPc EXCEPT ![w] = IF next < layerCount THEN "process"
                                           ELSE "finish"]
    /\ UNCHANGED << layerCount, parallelThreadCount, done, threads_finished,
                    layerPolys, cancelled, mainPc, mainIi, readLog >>
    /\ UNCHANGED << updaterVars, symbolVars >>

\* a slip: a cancelled worker returns without counting itself
WorkerProcessReturnsOnCancel(w) ==
    /\ workerPc[w] = "process"
    /\ layerPolys' = [layerPolys EXCEPT ![workerI[w]] =
                          Append(@, [by |-> w, whole |-> ~cancelled])]
    /\ \E zonesSeen \in 0..ZonesOnLayer(workerI[w]) :
           /\ ~cancelled => zonesSeen = ZonesOnLayer(workerI[w])
           /\ done' = done + zonesSeen
    /\ workerPc' = [workerPc EXCEPT ![w] = IF cancelled THEN "exited" ELSE "fetch"]
    /\ UNCHANGED << layerCount, parallelThreadCount, next, threads_finished, cancelled,
                    mainPc, mainIi, workerI, obtained, readLog >>
    /\ UNCHANGED << updaterVars, symbolVars >>

\* lines 126-170: the polygons of layer i are collected into layerPolys[i],
\* simplified and deflated; a cancellation cuts the collection short and
\* leaves the loop
WorkerProcess(w) ==
    /\ workerPc[w] = "process"
    /\ layerPolys' = [layerPolys EXCEPT ![workerI[w]] =
                          Append(@, [by |-> w, whole |-> ~cancelled])]
    /\ \E zonesSeen \in 0..ZonesOnLayer(workerI[w]) :
           /\ ~cancelled => zonesSeen = ZonesOnLayer(workerI[w])
           /\ done' = done + zonesSeen
    /\ workerPc' = [workerPc EXCEPT ![w] = IF cancelled THEN "finish" ELSE "fetch"]
    /\ UNCHANGED << layerCount, parallelThreadCount, next, threads_finished, cancelled,
                    mainPc, mainIi, workerI, obtained, readLog >>
    /\ UNCHANGED << updaterVars, symbolVars >>

\* line 173: threads_finished.fetch_add( 1 ), the last statement of a worker
WorkerFinish(w) ==
    /\ workerPc[w] = "finish"
    /\ threads_finished' = threads_finished + 1
    /\ workerPc' = [workerPc EXCEPT ![w] = "exited"]
    /\ UNCHANGED << layerCount, parallelThreadCount, next, done, layerPolys, cancelled,
                    mainPc, mainIi, workerI, obtained, readLog >>
    /\ UNCHANGED << updaterVars, symbolVars >>

\* a wait loop that is left as soon as one worker has finished
MainWaitForOne ==
    /\ mainPc = "wait"
    /\ ~(threads_finished < 1)
    /\ mainPc' = "read"
    /\ mainIi' = 0
    /\ UNCHANGED << layerCount, parallelThreadCount, next, done, threads_finished,
                    layerPolys, cancelled, workerPc, workerI, obtained, readLog >>
    /\ UNCHANGED << updaterVars, symbolVars >>

\* lines 179-183: the wait loop is left when threads_finished has reached
\* parallelThreadCount
MainWait ==
    /\ mainPc = "wait"
    /\ ~(threads_finished < parallelThreadCount)
    /\ mainPc' = "read"
    /\ mainIi' = 0
    /\ UNCHANGED << layerCount, parallelThreadCount, next, done, threads_finished,
                    layerPolys, cancelled, workerPc, workerI, obtained, readLog >>
    /\ UNCHANGED << updaterVars, symbolVars >>

\* lines 185-236: the read loop; a layer is skipped when the error limit is
\* exceeded
MainRead ==
    /\ mainPc = "read"
    /\ IF mainIi < layerCount
       THEN /\ \E exceeded \in BOOLEAN :
                   readLog' = IF exceeded THEN readLog
                              ELSE Append(readLog, layerPolys[mainIi])
            /\ mainIi' = mainIi + 1
            /\ UNCHANGED mainPc
       ELSE /\ mainPc' = "returned"
            /\ UNCHANGED << mainIi, readLog >>
    /\ UNCHANGED << layerCount, parallelThreadCount, next, done, threads_finished,
                    layerPolys, cancelled, workerPc, workerI, obtained >>
    /\ UNCHANGED << updaterVars, symbolVars >>

NextSliver ==
    \/ RunStart
    \/ Cancel
    \/ \E w \in Workers : WorkerFetch(w)
    \/ \E w \in Workers : WorkerProcess(w)
    \/ \E w \in Workers : WorkerFinish(w)
    \/ MainWait
    \/ MainRead

SpecSliver == InitSliver /\ [][NextSliver]_vars

\* the steps of worker thread w
Worker(w) ==
    /\ w \in Workers
    /\ (WorkerFetch(w) \/ WorkerProcess(w) \/ WorkerFinish(w))

\* every started thread is scheduled again and again, and so is the main
\* thread, which wakes from its sleep (line 182) and tests its loop condition
FairScheduling ==
    /\ \A w \in 1..MaxThreads : WF_vars(Worker(w))
    /\ WF_vars(MainWait)

SpecSliverFair == InitSliver /\ [][NextSliver]_vars /\ FairScheduling

-----------------------------------------------------------------------------
(* The library symbol check: CheckLibSymbol, eeschema/symbol_checker.cpp *)

\* most pins a symbol of the model has
MaxPins == 2

\* a LIB_PIN: number, De Morgan variant, unit, electrical type, visibility
\* and whether its position is on the pin grid
LibPin(number, convert, unit, type, visible, onGrid) ==
    [number |-> number, convert |-> convert, unit |-> unit, type |-> type,
     visible |-> visible, onGrid |-> onGrid]

\* the pins the symbols of the model are made of
PinKinds ==
    { LibPin(1, 0, 1, "PT_POWER_IN", FALSE, TRUE),
      LibPin(1, 0, 1, "PT_POWER_IN", TRUE, TRUE),
      LibPin(1, 0, 1, "PT_POWER_OUT", TRUE, TRUE),
      LibPin(1, 0, 0, "PT_INPUT", TRUE, FALSE),
      LibPin(1, 1, 1, "PT_INPUT", TRUE, TRUE),
      LibPin(2, 0, 1, "PT_INPUT", TRUE, TRUE) }

PinLists == UNION { [1..n -> PinKinds] : n \in 0..MaxPins }

\* the LIB_SYMBOLs of the model
Symbols ==
    [null : { FALSE }, isPower : BOOLEAN, unitCount : 1..2,
     hasConversion : BOOLEAN, pins : PinLists]

\* lines 317-331
sort_by_pin_number(ref, tst) ==
    IF ref.number # tst.number THEN ref.number < tst.number
    ELSE IF ref.convert # tst.convert THEN ref.convert < tst.convert
    ELSE ref.unit < tst.unit

\* line 56: what std::sort can leave: the pins of the symbol in an order in
\* which no pin stands before a pin it is to follow (std::sort keeps no order
\* among equal pins)
SortedPinLists(pins) ==
    { l \in [DOMAIN pins -> PinKinds] :
        /\ \E p \in [DOMAIN pins -> DOMAIN pins] :
               /\ \A i, j \in DOMAIN pins : i # j => p[i] # p[j]
               /\ \A i \in DOMAIN pins : l[i] = pins[p[i]]
        /\ \A i, j \in DOMAIN pins : i < j => ~sort_by_pin_number(l[j], l[i]) }

\* CheckLibSymbol is called with a symbol, or with none
InitSymbol ==
    /\ InitWith(BoardEmpty)
    /\ NoSliverRun
    /\ aSymbol \in Symbols \cup { NoSymbol }
    /\ pinList = << >>
    /\ aMessages = << >>
    /\ checkPc = "start"
    /\ ii = 0
    /\ pinReads = {}

\* lines 47-56: return on a null symbol; else get the pins and sort them
GetSortedPins ==
    /\ checkPc = "start"
    /\ IF aSymbol.null
       THEN /\ checkPc' = "returned"
            /\ UNCHANGED << pinList, ii >>
       ELSE /\ pinList' \in SortedPinLists(aSymbol.pins)
            /\ checkPc' = "duplicates"
            /\ ii' = 1
    /\ UNCHANGED << aSymbol, aMessages, pinReads >>
    /\ UNCHANGED << updaterVars, sliverVars >>

\* lines 85-149: the four forms of the duplicate pin message
DuplicateMessage(sym, pin, nxt) ==
    << "Duplicate pin", nxt.number,
       IF pin.unit = 0 \/ nxt.unit = 0 THEN "" ELSE "in units",
       IF sym.hasConversion /\ nxt.convert # 0 THEN "of converted" ELSE "" >>

\* lines 68-153: one turn of the loop over the neighbours in the sorted list,
\* or its end; the pins are pinList[ii - 1] and pinList[ii] of the code,
\* which are the elements ii and ii + 1 of the sequence
TestDuplicate ==
    /\ checkPc = "duplicates"
    /\ IF ii < Len(pinList)
       THEN /\ pinReads' = pinReads \cup { ii - 1, ii }
            /\ aMessages' =
                   IF \/ pinList[ii].number # pinList[ii + 1].number
                      \/ pinList[ii].convert # pinList[ii + 1].convert
                   THEN aMessages
                   ELSE Append(aMessages,
                               DuplicateMessage(aSymbol, pinList[ii], pinList[ii + 1]))
            /\ ii' = ii + 1
            /\ UNCHANGED checkPc
       ELSE /\ checkPc' = "power"
            /\ UNCHANGED << aMessages, ii, pinReads >>
    /\ UNCHANGED << aSymbol, pinList >>
    /\ UNCHANGED << updaterVars, sliverVars >>

\* lines 161-177
PowerSymbolMessages(sym, size) ==
    (IF sym.unitCount # 1
     THEN << << "A Power Symbol should have only one unit" >> >> ELSE << >>)
    \o (IF sym.hasConversion
        THEN << << "A Power Symbol should have no convert option" >> >> ELSE << >>)
    \o (IF size # 1
        THEN << << "A Power Symbol should have only one pin" >> >> ELSE << >>)

\* lines 181-194, for the pin read at line 179
PowerPinMessages(pin) ==
    (IF pin.type # "PT_POWER_IN" /\ pin.type # "PT_POWER_OUT"
     THEN << << "Suspicious Power Symbol", "Only a input or output power pin has meaning" >> >>
     ELSE << >>)
    \o (IF pin.type = "PT_POWER_IN" /\ pin.visible
        THEN << << "Suspicious Power Symbol",
                   "Only invisible input power pins are automatically connected" >> >>
        ELSE << >>)

\* lines 155-195: the test of a power symbol.  Line 179 reads pinList[0]
\* whatever the size of the list: on an empty list the read is out of range,
\* and the call crashes or goes on with whatever pin the read gave
TestPowerSymbol ==
    /\ checkPc = "power"
    /\ IF ~aSymbol.isPower
       THEN /\ checkPc' = "pins"
            /\ UNCHANGED << aMessages, pinReads >>
       ELSE /\ pinReads' = pinReads \cup { 0 }
            /\ IF Len(pinList) > 0
               THEN /\ aMessages' = aMessages \o PowerSymbolMessages(aSymbol, Len(pinList))
                                              \o PowerPinMessages(pinList[1])
                    /\ checkPc' = "pins"
               ELSE \/ /\ aMessages' = aMessages \o PowerSymbolMessages(aSymbol, 0)
                       /\ checkPc' = "crashed"
                    \/ \E pin \in PinKinds :
                           /\ aMessages' = aMessages \o PowerSymbolMessages(aSymbol, 0)
                                                     \o PowerPinMessages(pin)
                           /\ checkPc' = "pins"
    /\ ii' = 0
    /\ UNCHANGED << aSymbol, pinList >>
    /\ UNCHANGED << updaterVars, sliverVars >>

\* lines 207-260 and 262-312: the messages for one pin
PinMessages(sym, pin) ==
    (IF ~sym.isPower /\ pin.type = "PT_POWER_IN" /\ ~pin.visible
     THEN << << "Hidden power pin", pin.number,
                IF sym.unitCount <= 1 THEN "" ELSE "in unit",
                IF sym.hasConversion /\ pin.convert # 0 THEN "of converted" ELSE "" >> >>
     ELSE << >>)
    \o (IF ~pin.onGrid
        THEN << << "Off grid pin", pin.number,
                   IF sym.unitCount <= 1 THEN "" ELSE "in unit",
                   IF sym.hasConversion /\ pin.convert # 0 THEN "of converted" ELSE "" >> >>
        ELSE << >>)

\* lines 198-314: one turn of the loop over the pins, or its end and the
\* return; ii is the number of pins the loop is through
TestPin ==
    /\ checkPc = "pins"
    /\ IF ii < Len(pinList)
       THEN /\ pinReads' = pinReads \cup { ii }
            /\ aMessages' = aMessages \o PinMessages(aSymbol, pinList[ii + 1])
            /\ ii' = ii + 1
            /\ UNCHANGED checkPc
       ELSE /\ checkPc' = "returned"
            /\ UNCHANGED << aMessages, ii, pinReads >>
    /\ UNCHANGED << aSymbol, pinList >>
    /\ UNCHANGED << updaterVars, sliverVars >>

NextSymbol == GetSortedPins \/ TestDuplicate \/ TestPowerSymbol \/ TestPin

SpecSymbol == InitSymbol /\ [][NextSymbol]_vars

-----------------------------------------------------------------------------
(* Vocabulary of the properties *)

\* the options UpdateNetlist ran (or runs) with
RunOpts == before.opts

CommitRun == Returned /\ ~RunOpts.isDryRun

DryRun == Returned /\ RunOpts.isDryRun

\* the Action-severity messages that carry a text
ActionMessages ==
    { j \in DOMAIN reports : reports[j].sev = "action" /\ reports[j].msg # << "" >> }

Reported(sev, msg) ==
    \E j \in DOMAIN reports : reports[j].sev = sev /\ reports[j].msg = msg

\* the pads of the footprints on the board
BoardPads ==
    { << f, k >> : f \in Range(footprints), k \in 1..2 } \cap
    { p \in (1..Len(fpObjs)) \X (1..2) : p[2] \in DOMAIN fpObjs[p[1]].pads }

NetNameOf(p) == nets[fpObjs[p[1]].pads[p[2]].net].name

\* the board as it was when the call started
BeforePad(p) == before.fpObjs[p[1]].pads[p[2]]

BeforeNetName(p) == before.nets[BeforePad(p).net].name

BeforeIsEmpty ==
    /\ before.footprints = << >>
    /\ before.tracks = << >>
    /\ before.zones = << >>
    /\ ~geom.drawings

CopperZoneOn(name) ==
    \E z \in DOMAIN zones :
        zones[z].onCopper /\ ~zones[z].ruleArea /\ nets[zones[z].net].name = name

-----------------------------------------------------------------------------
(* C1: idempotence *)

\* C1: after a commit-mode run of UpdateNetlist, a second commit-mode run with
\* the same netlist and the same options on the resulting board reports no
\* Action-severity message (the two blank lines that end every report apart).
C1_Idempotent ==
    (/\ CommitRun
     /\ prevCall.valid
     /\ ~prevCall.opts.isDryRun
     /\ prevCall.netlist = netlist
     /\ prevCall.opts = RunOpts)
    => ActionMessages = {}

-----------------------------------------------------------------------------
(* C2: a dry run leaves the board as it was *)

SameFootprint(f) ==
    /\ fpObjs[f].ref = before.fpObjs[f].ref
    /\ fpObjs[f].value = before.fpObjs[f].value
    /\ fpObjs[f].path = before.fpObjs[f].path
    /\ fpObjs[f].props = before.fpObjs[f].props
    /\ fpObjs[f].attrs = before.fpObjs[f].attrs
    /\ DOMAIN fpObjs[f].pads = DOMAIN before.fpObjs[f].pads
    /\ \A k \in DOMAIN fpObjs[f].pads :
           /\ fpObjs[f].pads[k].net = before.fpObjs[f].pads[k].net
           /\ fpObjs[f].pads[k].pinFunction = before.fpObjs[f].pads[k].pinFunction
           /\ fpObjs[f].pads[k].pinType = before.fpObjs[f].pads[k].pinType

SameNets ==
    /\ netInfo = before.netInfo
    /\ \A n \in netInfo : nets[n] = before.nets[n]

\* C2: with isDryRun=true, when UpdateNetlist has returned the board holds the
\* same footprints, every footprint has the same reference, value, path,
\* properties and attributes, every pad the same net, pin function and pin
\* type, and the registry the same nets with the same is-current flags as
\* before the call.
C2_DryRunKeepsBoard ==
    DryRun =>
        /\ footprints = before.footprints
        /\ \A f \in Range(footprints) : SameFootprint(f)
        /\ SameNets

\* a dry run that announced a reconnection, a new footprint and a removal
C2_Witness ==
    /\ DryRun
    /\ \E j \in ActionMessages : reports[j].msg[1] = "Reconnect"
    /\ \E j \in ActionMessages : reports[j].msg[1] = "Change value"
    /\ \E j \in ActionMessages : reports[j].msg[1] = "Remove single pad net"

-----------------------------------------------------------------------------
(* C3: net liveness *)

PadBoundTo(n) == \E p \in BoardPads : fpObjs[p[1]].pads[p[2]].net = n

\* C3: after a commit-mode UpdateNetlist a net is in the registry if and only
\* if it is the unconnected sentinel (code 0) or a pad of the board is bound
\* to it.
C3_NetLiveness ==
    CommitRun =>
        \A n \in DOMAIN nets :
            n \in netInfo <=> (nets[n].code = UNCONNECTED \/ PadBoundTo(n))

-----------------------------------------------------------------------------
(* C4: single-pad pruning *)

PadsNamed(name) == { p \in BoardPads : NetNameOf(p) = name }

\* C4: after a commit-mode UpdateNetlist with deleteSinglePadNets=true no
\* non-empty net name is carried by exactly one pad of the board and by no
\* copper zone that is not a rule area.
C4_NoSinglePadNet ==
    (CommitRun /\ RunOpts.deleteSinglePadNets) =>
        \A p \in BoardPads :
            NetNameOf(p) # "" =>
                (Cardinality(PadsNamed(NetNameOf(p))) # 1 \/ CopperZoneOn(NetNameOf(p)))

-----------------------------------------------------------------------------
(* C5: several footprints match one component *)

\* the component the next step of the component loop processes
Processing ==
    /\ pc = "components"
    /\ idx <= Len(netlist)
    /\ ~Has(netlist[idx].props, "exclude_from_board")

\* the footprints of the board that match that component, as positions in
\* board order
Matches == { j \in DOMAIN footprints : IsMatch(State, footprints[j], netlist[idx]) }

FirstMatch == footprints[CHOOSE j \in Matches : \A i \in Matches : j <= i]

LastMatch == footprints[CHOOSE j \in Matches : \A i \in Matches : i <= j]

\* no match asks for another library footprint
NoneReplaced ==
    \A j \in Matches :
        ~(opts.replaceFootprints /\ netlist[idx].fpid # fpObjs[footprints[j]].fpid)

Ambiguous == Processing /\ Cardinality(Matches) >= 2 /\ NoneReplaced

\* the footprints the step synchronised with the component, in order
SyncedNow == SubSeq(syncLog', Len(syncLog) + 1, Len(syncLog'))

MatchesInOrder ==
    [i \in 1..Cardinality(Matches) |->
        << idx, footprints[CHOOSE j \in Matches :
                               Cardinality({ m \in Matches : m <= j }) = i] >>]

AmbiguityReported ==
    \E j \in DOMAIN reports' :
        /\ j > Len(reports)
        /\ reports'[j].sev = "error"
        /\ reports'[j].msg = << "Multiple footprints found", netlist[idx].ref >>

-----------------------------------------------------------------------------
(* C6: every pad is bound to a registered net *)

\* C6: after a commit-mode UpdateNetlist every pad of every footprint of the
\* board is bound to a net of the registry.
C6_PadsOnRegisteredNets ==
    CommitRun => \A p \in BoardPads : fpObjs[p[1]].pads[p[2]].net \in netInfo

-----------------------------------------------------------------------------
(* C7: the unconnected sentinel *)

Sentinels == { n \in netInfo : nets[n].code = UNCONNECTED }

\* C7: the net of code 0 is in the registry in every state, before, during
\* and after UpdateNetlist, and it is current from the marking of the stale
\* nets on: it is never marked stale and never removed.
C7_SentinelKept ==
    /\ Sentinels # {}
    /\ \A n \in Sentinels : nets[n].isCurrent

\* a commit pass in which the other nets were marked stale, and a commit pass
\* that removed a net from the registry
C7_Witness ==
    /\ CommitRun
    /\ before.netInfo \ netInfo # {}
    /\ Reported("action", << "Remove unused net", "N1" >>)
    /\ \A n \in Sentinels : nets[n].isCurrent

-----------------------------------------------------------------------------
(* C8: one component on a board without footprints *)

\* the scenario: no footprint on the board, one component R1 whose footprint
\* the library holds
AddScenario ==
    /\ CommitRun
    /\ before.footprints = << >>
    /\ Len(netlist) = 1
    /\ netlist[1].ref = "R1"
    /\ CanLoad(netlist[1].fpid)

PageCentre == << geom.pageW \div 2, geom.pageH \div 2 >>

\* C8 as stated: the board then holds one footprint, R1, at the centre of the
\* page, every pad of it on the unconnected sentinel.
C8_AddAllUnconnected ==
    AddScenario =>
        /\ Len(footprints) = 1
        /\ fpObjs[footprints[1]].ref = "R1"
        /\ fpObjs[footprints[1]].pos = PageCentre
        /\ \A p \in BoardPads : nets[fpObjs[p[1]].pads[p[2]].net].code = UNCONNECTED

\* the net name a pad of the new footprint gets from the component
PinNetName(comp, pad) ==
    IF IsValid(GetNet(comp, pad.name)) /\ pad.onCopper
    THEN GetNet(comp, pad.name).net
    ELSE ""

\* C8 amended: on an empty board (no footprint, track, zone or drawing) and
\* with a component that is not excluded from the board, the board then holds
\* one footprint, R1, at the centre of the page; every pad of it on a copper
\* layer that the component has a pin for is bound to the net of that pin,
\* every other pad is on the unconnected sentinel.
C8_AddBound ==
    (AddScenario /\ BeforeIsEmpty /\ ~Has(netlist[1].props, "exclude_from_board")) =>
        /\ Len(footprints) = 1
        /\ fpObjs[footprints[1]].ref = "R1"
        /\ fpObjs[footprints[1]].pos = PageCentre
        /\ \A p \in BoardPads : NetNameOf(p) = PinNetName(netlist[1], fpObjs[p[1]].pads[p[2]])
        /\ \A p \in BoardPads : fpObjs[p[1]].pads[p[2]].net \in netInfo

\* R1 was added to the empty board, at the centre of the page, its pads on
\* the nets N1 and N3 of its pins
C8_Witness ==
    /\ AddScenario
    /\ BeforeIsEmpty
    /\ Len(footprints) = 1
    /\ fpObjs[footprints[1]].pos = << 148500000, 105000000 >>
    /\ NetNameOf(<< footprints[1], 1 >>) = "N1"
    /\ NetNameOf(<< footprints[1], 2 >>) = "N3"

-----------------------------------------------------------------------------
(* C9: a pad moves from one net to another *)

\* the footprint, as it was before the call, matches the component
BeforeMatch(f, c) ==
    IF RunOpts.lookupByTimestamp
    THEN before.fpObjs[f].path = netlist[c].path
    ELSE CmpNoCaseEq(before.fpObjs[f].ref, netlist[c].ref)

\* the net the component gives the pad
PinOf(c, p) == GetNet(netlist[c], BeforePad(p).name)

\* pad p of a footprint that stays on the board was on a net, and component
\* c, which matches the footprint, has its pin on another net
Rebound(p, c) ==
    /\ p[1] \in Range(before.footprints) \cap Range(footprints)
    /\ p[2] \in DOMAIN before.fpObjs[p[1]].pads
    /\ BeforeMatch(p[1], c)
    /\ BeforeNetName(p) # ""
    /\ IsValid(PinOf(c, p))
    /\ PinOf(c, p).net # BeforeNetName(p)

\* every via that was on the net, the net being no net name of the netlist,
\* is on the other net
ViasMoved(from, to) ==
    \A t \in DOMAIN tracks :
        (/\ before.tracks[t].isVia
         /\ before.nets[before.tracks[t].net].name = from
         /\ from \notin netlistNetnames(netlist))
        => nets[tracks[t].net].name = to

PadsOfRun == { p \in (1..Len(before.fpObjs)) \X (1..2) : p[2] \in DOMAIN before.fpObjs[p[1]].pads }

SyncedOnceWith(f, c) ==
    /\ \E j \in DOMAIN syncLog : syncLog[j] = << c, f >>
    /\ Cardinality({ j \in DOMAIN syncLog : syncLog[j][2] = f }) = 1

\* no pad was reconnected from the net to a net other than to
OnlyMovedTo(from, to) ==
    \A j \in DOMAIN reports :
        (/\ reports[j].sev = "action"
         /\ reports[j].msg[1] = "Reconnect"
         /\ reports[j].msg[4] = from)
        => reports[j].msg[5] = to

\* no other pad of the footprints the run looked at carries the net name
AloneOn(p, name) ==
    \A q \in PadsOfRun :
        (q # p /\ q[1] \in Range(before.footprints)) => NetNameOf(q) # name

-----------------------------------------------------------------------------
(* C10: a locked footprint without a component *)

Unmatched(f) == \A c \in DOMAIN netlist : ~BeforeMatch(f, c)

LockedUnused(f) ==
    /\ f \in Range(before.footprints)
    /\ before.fpObjs[f].locked
    /\ Unmatched(f)

LockedWarning(f) ==
    Reported("warning", << "Cannot remove unused footprint (locked)", before.fpObjs[f].ref >>)

\* C10 as stated: with deleteUnusedComponents=true, a locked footprint that
\* no component of the netlist matches stays on the board and a Warning is
\* reported for it.
C10_LockedKeptAndWarned ==
    (Returned /\ RunOpts.deleteUnusedComponents) =>
        \A f \in 1..Len(before.fpObjs) :
            LockedUnused(f) => (f \in Range(footprints) /\ LockedWarning(f))

\* C10 amended: with deleteUnusedComponents=true, a locked footprint that no
\* component of the netlist matches stays on the board; a Warning is reported
\* for it unless it carries the board-only attribute: a board-only footprint
\* is kept without a message.
C10_LockedKeptWarnedUnlessBoardOnly ==
    (Returned /\ RunOpts.deleteUnusedComponents) =>
        \A f \in 1..Len(before.fpObjs) :
            LockedUnused(f) =>
                /\ f \in Range(footprints)
                /\ LockedWarning(f) <=> ~IsBoardOnly(before.fpObjs[f])

\* a commit pass that removed the unlocked R1, kept the locked U1 and warned
C10_Witness ==
    /\ CommitRun
    /\ RunOpts.deleteUnusedComponents
    /\ LockedUnused(2)
    /\ ~IsBoardOnly(before.fpObjs[2])
    /\ LockedWarning(2)
    /\ footprints = << 2 >>

-----------------------------------------------------------------------------
(* C11, C12: the counters and the messages *)

NumReports(sev) == Cardinality({ j \in DOMAIN reports : reports[j].sev = sev })

\* C11: when UpdateNetlist has returned, the warning count equals the number
\* of Warning-severity messages reported during the pass; a locked footprint
\* without a component that is kept counts for one.
C11_WarningsCounted == Returned => warningCount = NumReports("warning")

\* the summary line that ends the report
SummaryLine ==
    [sev |-> "info", msg |-> << "Total warnings and errors", warningCount, errorCount >>,
     tail |-> TRUE]

\* C12: when UpdateNetlist has returned, the error count equals the number of
\* Error-severity messages reported during the pass, and the summary line,
\* the last line of the report, carries that count.
C12_ErrorsCounted ==
    Returned =>
        /\ errorCount = NumReports("error")
        /\ reports # << >>
        /\ reports[Len(reports)] = SummaryLine

-----------------------------------------------------------------------------
(* C13: UpdateNetlist runs to its end *)

ComponentPhases == Cardinality({ j \in DOMAIN phaseLog : phaseLog[j] = "component" })

\* the call went through every component, ended its report with the summary
\* line and returned
Completed ==
    /\ Returned
    /\ ComponentPhases = Len(netlist)
    /\ reports # << >>
    /\ reports[Len(reports)] = SummaryLine

\* C13: every UpdateNetlist call that has started goes through every
\* component of the netlist, whatever errors the components raise, reports
\* the summary line and returns.
C13_NeverAborts == (pc = "markStale") ~> Completed

\* a call whose first component could not be added and whose second was
C13_Witness ==
    /\ Completed
    /\ Len(netlist) = 2
    /\ errorCount >= 1
    /\ Reported("error", << "Cannot add (no footprint assigned)", "R3" >>)
    /\ Reported("action", << "Add", "R2", "lib:A" >>)

-----------------------------------------------------------------------------
(* C14: a component whose footprint cannot be made *)

\* the component the next step processes matches no footprint and has no
\* footprint identifier, or one the library does not hold
NewComponentFails ==
    /\ Processing
    /\ Matches = {}
    /\ (netlist[idx].fpid = "" \/ ~CanLoad(netlist[idx].fpid))

NewErrors ==
    { j \in DOMAIN reports' : j > Len(reports) /\ reports'[j].sev = "error" }

\* C14: when a component matches no footprint and its footprint identifier is
\* empty or the library load fails, the step that processes it raises the
\* error count by exactly 1, reports one Error, stages nothing in the commit,
\* leaves the count of new footprints and the board's footprints as they
\* were, and the loop goes on to the next component.
C14_FailureIsLocal ==
    [][NewComponentFails =>
          /\ errorCount' = errorCount + 1
          /\ Cardinality(NewErrors) = 1
          /\ commit' = commit
          /\ newFootprintsCount' = newFootprintsCount
          /\ footprints' = footprints
          /\ fpObjs' = fpObjs
          /\ pc' = "components"
          /\ idx' = idx + 1]_vars

\* R3, without footprint identifier, was refused; the loop is at the next
\* component
C14_Witness ==
    /\ pc = "components"
    /\ idx = 2
    /\ Len(netlist) = 2
    /\ errorCount = 1
    /\ newFootprintsCount = 0
    /\ commit = << >>
    /\ Reported("error", << "Cannot add (no footprint assigned)", "R3" >>)

-----------------------------------------------------------------------------
(* C15: the matcher and the footprints made during the pass *)

NewSyncs == { j \in DOMAIN syncLog' : j > Len(syncLog) }

NewChanges == { j \in DOMAIN commit' : j > Len(commit) }

\* C15: a step of the component loop matches and synchronises with its
\* component only footprints that were on the board when the pass started:
\* every footprint it synchronises is such a footprint or one the step itself
\* made for the component, and every footprint it exchanges is such a
\* footprint.
C15_MatcherSeesOldOnly ==
    [][Processing =>
          /\ \A j \in NewSyncs :
                 \/ syncLog'[j][2] \in Range(before.footprints)
                 \/ syncLog'[j][2] > Len(fpObjs)
          /\ \A j \in NewChanges :
                 (commit'[j].kind = "fp" /\ commit'[j].op = "remove")
                 => commit'[j].id \in Range(before.footprints)]_vars

\* two components whose references are equal without case: each got a new
\* footprint of its own, the second did not take the footprint of the first
C15_Witness ==
    /\ CommitRun
    /\ Len(netlist) = 2
    /\ CmpNoCaseEq(netlist[1].ref, netlist[2].ref)
    /\ Len(syncLog) = 2
    /\ syncLog[1][1] = 1
    /\ syncLog[2][1] = 2
    /\ syncLog[1][2] > Len(before.fpObjs)
    /\ syncLog[2][2] > Len(before.fpObjs)
    /\ syncLog[1][2] # syncLog[2][2]

-----------------------------------------------------------------------------
(* C16, C17: the sweep of the footprints without a component *)

Sweeping == pc = "sweep"

\* the sweep stages the removal of footprint f
SweepRemoves(f) ==
    \E j \in NewChanges : commit'[j] = [op |-> "remove", kind |-> "fp", id |-> f]

ExcludedFromBoard(c) == Has(netlist[c].props, "exclude_from_board")

\* the component the sweep finds for footprint f carries exclude_from_board
ExcludedMatch(f) ==
    /\ SweepComponent(State, f) # NullId
    /\ ExcludedFromBoard(SweepComponent(State, f))

\* C16 as stated: with deleteUnusedComponents=true the sweep does not remove
\* a footprint whose matching component carries exclude_from_board.
C16_ExcludedKept ==
    [][(Sweeping /\ opts.deleteUnusedComponents) =>
          \A f \in Range(footprints) : ExcludedMatch(f) => ~SweepRemoves(f)]_vars

\* C16 amended: with deleteUnusedComponents=true, in commit mode, the sweep
\* treats a footprint whose matching component carries exclude_from_board as
\* a footprint without a component: it removes the footprint unless the
\* footprint is board-only or locked.
C16_ExcludedRemoved ==
    [][(Sweeping /\ opts.deleteUnusedComponents /\ ~opts.isDryRun) =>
          \A f \in Range(footprints) :
              ExcludedMatch(f) =>
                  (SweepRemoves(f) <=> (~IsBoardOnly(fpObjs[f]) /\ ~fpObjs[f].locked))]_vars

\* the sweep has staged the removal of R1, whose component is excluded from
\* the board
C16_Witness ==
    /\ pc = "connectivity"
    /\ opts.deleteUnusedComponents
    /\ Len(netlist) = 1
    /\ ExcludedFromBoard(1)
    /\ Len(fpObjs) >= 1
    /\ fpObjs[1].ref = netlist[1].ref
    /\ \E j \in DOMAIN commit : commit[j] = [op |-> "remove", kind |-> "fp", id |-> 1]
    /\ Reported("action", << "Remove unused footprint", "R1" >>)

\* component c is the component of footprint f for the sweep
SweepMatch(f, c) ==
    IF opts.lookupByTimestamp
    THEN netlist[c].path = fpObjs[f].path
    ELSE netlist[c].ref = fpObjs[f].ref

-----------------------------------------------------------------------------
(* C18: the repair of a copper zone on a net the netlist does not have *)

\* the step that runs updateCopperZoneNets
ZoneRepairing == pc = "components" /\ idx > Len(netlist)

ZoneName(z) == nets[zones[z].net].name

\* the copper zones, no rule areas, whose net name is no net name of the
\* netlist
DeadZones ==
    { z \in DOMAIN zones :
        /\ zones[z].onCopper
        /\ ~zones[z].ruleArea
        /\ ZoneName(z) \notin netlistNetnames(netlist) }

\* the positions in the zone's snapshot of the pads whose net name, cached
\* or not, is not the zone's
Differing(z) ==
    { j \in DOMAIN zoneCache[z] : getNetname(State, zoneCache[z][j]) # ZoneName(z) }

\* the net name of the first of them, "" when there is none
FirstDifferingName(z) ==
    IF Differing(z) = {} THEN ""
    ELSE getNetname(State, zoneCache[z][CHOOSE j \in Differing(z) :
                                            \A i \in Differing(z) : j <= i])

ZoneNameAfter(z) == nets'[zones'[z].net].name

\* the name the rename map gives, the zone's own when it has none
RenamedOrKept(z) ==
    IF Has(oldToNew, ZoneName(z)) THEN oldToNew[ZoneName(z)] ELSE ZoneName(z)

\* C18 as stated: in commit mode, a copper zone, no rule area, whose net
\* name is no net name of the netlist adopts the net of the first pad of its
\* snapshot whose net name differs from the zone's, when there is such a
\* pad; the rename map decides only when no pad of the snapshot differs.
C18_ZoneAdoptsFirstPad ==
    [][(ZoneRepairing /\ ~opts.isDryRun) =>
          \A z \in DeadZones :
              ZoneNameAfter(z) = IF Differing(z) # {} THEN FirstDifferingName(z)
                                 ELSE RenamedOrKept(z)]_vars

\* C18 amended: in commit mode, such a zone adopts the net of the first pad
\* of its snapshot whose net name differs from the zone's when that pad is on
\* a net (its net name is not empty); the rename map decides when no pad of
\* the snapshot differs or when the first pad that differs is unconnected.
C18_ZoneAdoptsFirstNamedPad ==
    [][(ZoneRepairing /\ ~opts.isDryRun) =>
          \A z \in DeadZones :
              ZoneNameAfter(z) = IF FirstDifferingName(z) # "" THEN FirstDifferingName(z)
                                 ELSE RenamedOrKept(z)]_vars

\* the zone on N1 took N2, the net of the first pad of its snapshot, while
\* the rename map sends N1 to N3
C18_Witness ==
    /\ pc = "sweep"
    /\ ~opts.isDryRun
    /\ Len(zones) = 1
    /\ Len(zoneCache[1]) = 2
    /\ ZoneName(1) = "N2"
    /\ PadNetname(State, zoneCache[1][1]) = "N2"
    /\ PadNetname(State, zoneCache[1][2]) = "N3"
    /\ Has(oldToNew, "N1")
    /\ oldToNew["N1"] = "N3"
    /\ Reported("action", << "Reconnect copper zone", "N1", "N2" >>)

-----------------------------------------------------------------------------
(* C19: rule areas *)

\* the messages of the zone repair the step reports
NewZoneReports ==
    { j \in DOMAIN reports' :
        /\ j > Len(reports)
        /\ reports'[j].msg[1] \in { "Reconnect copper zone",
                                    "Copper zone has no pads connected" } }

\* the step that runs deleteSinglePadNets
Pruning == pc = "prune" /\ RunsPrune(State)

\* the pads of the board that are alone on their net name
SinglePads ==
    { p \in BoardPads :
        /\ getNetname(State, p) # ""
        /\ \A q \in BoardPads : q # p => getNetname(State, q) # getNetname(State, p) }

\* the only zones on the net name are rule areas
OnlyRuleAreasOn(name) ==
    /\ \E z \in DOMAIN zones : zones[z].ruleArea /\ ZoneName(z) = name
    /\ ~CopperZoneOn(name)

\* the pad is unconnected after the step (in a dry run: in the cache)
ClearedAfter(p) ==
    IF opts.isDryRun
    THEN Has(padNets', p) /\ padNets'[p] = ""
    ELSE nets'[fpObjs'[p[1]].pads[p[2]].net].name = ""

\* C19: no step of UpdateNetlist changes a rule-area zone; the zone repair
\* reports one message for each copper zone, no rule area, on a net the
\* netlist does not have, and none for a rule area; and the pruning of
\* single-pad nets clears a pad that is alone on its net although a rule area
\* is on that net.
C19_RuleAreasApart ==
    [][/\ \A z \in DOMAIN zones : zones[z].ruleArea => zones'[z] = zones[z]
       /\ ZoneRepairing => Cardinality(NewZoneReports) = Cardinality(DeadZones)
       /\ Pruning => \A p \in SinglePads :
                         OnlyRuleAreasOn(getNetname(State, p)) => ClearedAfter(p)]_vars

\* pad 1 of U1 was alone on N2 with the rule area: the pruning cleared it
C19_Witness ==
    /\ pc = "push"
    /\ Len(zones) = 2
    /\ zones[2].ruleArea
    /\ ZoneName(2) = "N2"
    /\ BeforeNetName(<< 2, 1 >>) = "N2"
    /\ NetNameOf(<< 2, 1 >>) = ""
    /\ Reported("action", << "Remove single pad net", "N2" >>)
    /\ ~Reported("warning", << "Copper zone has no pads connected", "N2" >>)

-----------------------------------------------------------------------------
(* C20: the order of the phases of a commit-mode run *)

\* the phases of a commit-mode run on a netlist, in order
ExpectedPhases(aNetlist, o) ==
    << "initialize", "markAllStale" >>
    \o [i \in 1..Len(aNetlist) |-> "component"]
    \o << "zoneViaRepair", "sweep", "connectivity",
          IF o.deleteSinglePadNets THEN "prune" ELSE "noPrune", "push", "finish" >>

IsPrefix(p, q) == Len(p) <= Len(q) /\ p = SubSeq(q, 1, Len(p))

\* C20: in commit mode the phases a run has gone through are at every moment
\* the beginning of: the marking of the stale nets, one synchronisation per
\* component, the zone and via repair, the sweep, the connectivity rebuild
\* with the validation after it, the pruning of single-pad nets when it is
\* enabled, the removal of the stale nets with the Push, and the final
\* report; no phase runs twice or out of its place; the validation reads the
\* connectivity rebuilt from the board the sweep left; and nothing changes
\* the board after the Push.
C20_PhaseOrder ==
    [][/\ ~opts'.isDryRun => IsPrefix(phaseLog', ExpectedPhases(netlist', opts'))
       /\ pc = "connectivity" => conn' = ConnectedPads(State)
       /\ pc = "finish" => UNCHANGED << footprints, fpObjs, nets, netInfo, zones,
                                        tracks, conn >>]_vars

\* a commit-mode run over two components that pruned single-pad nets
C20_Witness ==
    /\ CommitRun
    /\ Len(netlist) = 2
    /\ RunOpts.deleteSinglePadNets
    /\ phaseLog = << "initialize", "markAllStale", "component", "component",
                     "zoneViaRepair", "sweep", "connectivity", "prune", "push",
                     "finish" >>
    /\ Reported("action", << "Remove single pad net", "N2" >>)

-----------------------------------------------------------------------------
(* C21: the phases of a dry run *)

\* a step of a call made in dry-run mode, the call's start included
DryStep == opts.isDryRun /\ runs' > 0

\* the messages the step reports
NewReports == { j \in DOMAIN reports' : j > Len(reports) }

\* C21: no step of a dry run changes a net (none becomes stale), the
\* connectivity data, the registered nets or the transaction, which stays
\* empty; no step is the connectivity phase or the Push, and none reports an
\* orphaned pin or the removal of a net or counts an error for one; the
\* pruning of single-pad nets runs exactly when deleteSinglePadNets is set
\* and the pass counted no new footprint, and it changes the shadow cache
\* only.
C21_DryRunPhases ==
    [][DryStep =>
          /\ nets' = nets
          /\ conn' = conn
          /\ netInfo' = netInfo
          /\ commit = << >> /\ commit' = << >>
          /\ phaseLog'[Len(phaseLog')] \notin { "connectivity", "push" }
          /\ \A j \in NewReports :
                 reports'[j].msg[1] \notin { "pad not found", "Remove unused net" }
          /\ pc \in { "sweep", "prune" } => errorCount' = errorCount
          /\ pc = "prune" =>
                 /\ phaseLog'[Len(phaseLog')] = "prune"
                        <=> (opts.deleteSinglePadNets /\ newFootprintsCount = 0)
                 /\ phaseLog'[Len(phaseLog')] = "noPrune"
                        => (padNets' = padNets /\ reports' = reports)
                 /\ fpObjs' = fpObjs
                 /\ pc' = "finish"]_vars

\* a dry run that went from the sweep to the pruning: its netlist has a pin
\* without a pad (R1 pin 9), no error was counted for it, and the pruning
\* cleared pad 1 of U1 in the cache only
C21_Witness ==
    /\ DryRun
    /\ RunOpts.deleteSinglePadNets
    /\ newFootprintsCount = 0
    /\ phaseLog = << "initialize", "markAllStale", "component", "component",
                     "zoneViaRepair", "sweep", "prune", "finish" >>
    /\ Len(netlist) = 2
    /\ Has(footprintMap, 1)
    /\ ~FindPadByName(fpObjs[footprintMap[1]], netlist[1].pins[2].pin)
    /\ errorCount = 1
    /\ Has(padNets, << 2, 1 >>)
    /\ padNets[<< 2, 1 >>] = ""
    /\ NetNameOf(<< 2, 1 >>) = "N2"

-----------------------------------------------------------------------------
(* C22: the pads of a synchronised footprint after a commit-mode pass *)

\* component c matches footprint f of the board (lines 812-815)
MatchedBy(f, c) == IsMatch(State, f, netlist[c])

\* the components that match footprint f
MatchesOf(f) == { c \in DOMAIN netlist : MatchedBy(f, c) }

\* the pads of footprint f are what component c says: a pad on copper whose
\* name is a pin has the net name, the pin function and the pin type of the
\* pin; every other pad is on <no net> and has no pin function
PadsFollow(f, c) ==
    \A k \in DOMAIN fpObjs[f].pads :
        IF IsValid(GetNet(netlist[c], fpObjs[f].pads[k].name)) /\ fpObjs[f].pads[k].onCopper
        THEN /\ NetNameOf(<< f, k >>) = GetNet(netlist[c], fpObjs[f].pads[k].name).net
             /\ fpObjs[f].pads[k].pinFunction
                    = GetNet(netlist[c], fpObjs[f].pads[k].name).func
             /\ fpObjs[f].pads[k].pinType = GetNet(netlist[c], fpObjs[f].pads[k].name).type
        ELSE /\ nets[fpObjs[f].pads[k].net].code = UNCONNECTED
             /\ fpObjs[f].pads[k].pinFunction = ""

\* the replacement of footprint f for component c was wanted and was not made
ReplacementFailed(f, c) ==
    RunOpts.replaceFootprints /\ netlist[c].fpid # fpObjs[f].fpid

\* C22 as stated: after a commit-mode pass with deleteSinglePadNets=false,
\* the pads of every footprint of the board that exactly one component
\* matches are what that component says.
C22_PadsFollowComponent ==
    (CommitRun /\ ~RunOpts.deleteSinglePadNets) =>
        \A f \in Range(footprints) :
            Cardinality(MatchesOf(f)) = 1 => \A c \in MatchesOf(f) : PadsFollow(f, c)

\* C22 amended: after a commit-mode pass with deleteSinglePadNets=false, the
\* pads of every footprint of the board that exactly one component matches
\* are what that component says, when the component does not carry
\* exclude_from_board and the footprint is not one whose replacement failed.
C22_PadsFollowSyncedComponent ==
    (CommitRun /\ ~RunOpts.deleteSinglePadNets) =>
        \A f \in Range(footprints) :
            Cardinality(MatchesOf(f)) = 1 =>
                \A c \in MatchesOf(f) :
                    (~ExcludedFromBoard(c) /\ ~ReplacementFailed(f, c)) => PadsFollow(f, c)

\* U1 was replaced by the footprint of U1b: its pad 1 took N1 and the pin
\* function A, its pad 3, on no copper layer, is on <no net> without a pin
\* function although the component has a pin 3 on N3
C22_Witness ==
    /\ CommitRun
    /\ ~RunOpts.deleteSinglePadNets
    /\ Len(netlist) = 1
    /\ Len(fpObjs) = 3
    /\ 3 \in Range(footprints)
    /\ MatchesOf(3) = {1}
    /\ IsValid(GetNet(netlist[1], "3"))
    /\ ~fpObjs[3].pads[2].onCopper
    /\ NetNameOf(<< 3, 1 >>) = "N1"
    /\ fpObjs[3].pads[1].pinFunction = "A"
    /\ NetNameOf(<< 3, 2 >>) = ""
    /\ fpObjs[3].pads[2].pinFunction = ""

-----------------------------------------------------------------------------
(* C23: the warning for a pad without a net in the netlist *)

\* the pads of the footprint of synchronisation j (an entry of syncLog made
\* by the step) that are connectable and have no pin in the component
NoPinPads(j) ==
    { k \in DOMAIN fpObjs'[syncLog'[j][2]].pads :
        /\ fpObjs'[syncLog'[j][2]].pads[k].onCopper
        /\ fpObjs'[syncLog'[j][2]].pads[k].name # ""
        /\ ~IsValid(GetNet(netlist[syncLog'[j][1]], fpObjs'[syncLog'[j][2]].pads[k].name)) }

\* the step reports the warning for pad k of footprint f
WarnedNoNet(f, k) ==
    \E r \in NewReports :
        reports'[r] = [sev |-> "warning", tail |-> FALSE,
                       msg |-> << "No net for pin", fpObjs'[f].ref, fpObjs'[f].pads[k].name >>]

NewNoNetWarnings == { r \in NewReports : reports'[r].msg[1] = "No net for pin" }

\* the net name pad k of footprint f had when its synchronisation began; a
\* footprint made by the step starts with every pad on <no net>
NetNameBeforeSync(f, k) ==
    IF f <= Len(fpObjs) THEN PadNetname(State, << f, k >>) ELSE ""

\* C23 as stated: with warnForNoNetPads=true every connectable pad of a
\* synchronised footprint without a pin in the component gets the warning;
\* with warnForNoNetPads=false no such warning is reported.
C23_EveryNoPinPadWarned ==
    [][Processing =>
          IF opts.warnForNoNetPads
          THEN \A j \in NewSyncs : \A k \in NoPinPads(j) : WarnedNoNet(syncLog'[j][2], k)
          ELSE NewNoNetWarnings = {}]_vars

\* C23 amended: with warnForNoNetPads=true a connectable pad of a
\* synchronised footprint without a pin in the component gets the warning
\* when the pad was on no net before the synchronisation, and as many such
\* warnings are reported as there are such pads (a pad that was on a net gets
\* the Disconnect message in its place); with warnForNoNetPads=false no such
\* warning is reported.
C23_UnconnectedNoPinPadWarned ==
    [][Processing =>
          IF opts.warnForNoNetPads
          THEN /\ \A j \in NewSyncs : \A k \in NoPinPads(j) :
                      NetNameBeforeSync(syncLog'[j][2], k) = ""
                          => WarnedNoNet(syncLog'[j][2], k)
               /\ Cardinality(NewNoNetWarnings)
                      = Cardinality({ jk \in NewSyncs \X (1..2) :
                                        /\ jk[2] \in NoPinPads(jk[1])
                                        /\ NetNameBeforeSync(syncLog'[jk[1]][2], jk[2]) = "" })
          ELSE NewNoNetWarnings = {}]_vars

\* the component without a pin 1 met two footprints: pad 1 of the first was
\* on a net and was disconnected, pad 1 of the second was on no net and got
\* the warning
C23_Witness ==
    /\ opts.warnForNoNetPads
    /\ ~opts.isDryRun
    /\ pc = "components"
    /\ idx = 2
    /\ Len(netlist) = 1
    /\ ~IsValid(GetNet(netlist[1], "1"))
    /\ Len(syncLog) = 2
    /\ BeforeNetName(<< syncLog[1][2], 1 >>) = "N1"
    /\ BeforeNetName(<< syncLog[2][2], 1 >>) = ""
    /\ Reported("action", << "Disconnect", "R1", "1" >>)
    /\ Reported("warning", << "No net for pin", "R1", "1" >>)

-----------------------------------------------------------------------------
(* C24: the snapshots the metadata sync registers with the transaction *)

\* the snapshots of footprints the transaction holds
Snapshots == { j \in DOMAIN commit : commit[j].kind = "fp" /\ commit[j].op = "modify" }

\* what updateFootprintParameters synchronises: reference, value, path,
\* properties and the exclude-from-BOM bit
Parameters(fp) ==
    << fp.ref, fp.value, fp.path, fp.props, HasBit(fp.attrs, FP_EXCLUDE_FROM_BOM) >>

\* C24: updateFootprintParameters, for the component at hand and any
\* footprint of the board, adds to the transaction only when it changed one
\* of reference, value, path, properties or exclude-from-BOM bit, and what it
\* adds is the clone it made on entry; and at every moment of a pass the
\* transaction holds at most one snapshot per footprint, of a footprint the
\* board had when the pass started and equal to what it was then.
C24_OneSnapshotBeforeChange ==
    /\ Processing =>
           \A f \in Range(footprints) :
               updateFootprintParameters(State, f, netlist[idx]).commit # commit
               => /\ Parameters(updateFootprintParameters(State, f, netlist[idx]).fpObjs[f])
                         # Parameters(fpObjs[f])
                  /\ updateFootprintParameters(State, f, netlist[idx]).commit
                         = Append(commit, [op |-> "modify", kind |-> "fp", id |-> f,
                                           copy |-> fpObjs[f]])
    /\ \A j \in Snapshots :
           /\ commit[j].id \in DOMAIN before.fpObjs
           /\ commit[j].copy = before.fpObjs[commit[j].id]
    /\ \A i, j \in Snapshots : commit[i].id = commit[j].id => i = j

\* R1 was synchronised with a component of another value and another net on
\* pad 2: both the metadata sync and the pad sync changed it, and the
\* transaction holds one snapshot, with the old value and the old net
C24_Witness ==
    /\ pc = "components"
    /\ idx = 2
    /\ Cardinality(Snapshots) = 1
    /\ \A j \in Snapshots :
           /\ commit[j].id = 1
           /\ commit[j].copy.value = "10k"
           /\ nets[commit[j].copy.pads[2].net].name = "N2"
    /\ fpObjs[1].value = "22k"
    /\ NetNameOf(<< 1, 2 >>) = "N3"

-----------------------------------------------------------------------------
(* C25: the metadata sync brings the footprint to the component, once *)

\* footprint fp carries the reference, value, path and properties of the
\* component and the exclude-from-BOM bit exactly when the component has the
\* exclude_from_bom property
CarriesParameters(fp, comp) ==
    /\ fp.ref = comp.ref
    /\ fp.value = comp.value
    /\ fp.path = comp.path
    /\ fp.props = comp.props
    /\ HasBit(fp.attrs, FP_EXCLUDE_FROM_BOM) <=> Has(comp.props, "exclude_from_bom")

\* the state updateFootprintParameters leaves for footprint f and the
\* component at hand
AfterParameters(f) == updateFootprintParameters(State, f, netlist[idx])

\* a second call on that state reports nothing and changes nothing
SecondCallIdle(f) ==
    /\ updateFootprintParameters(AfterParameters(f), f, netlist[idx]).reports
           = AfterParameters(f).reports
    /\ updateFootprintParameters(AfterParameters(f), f, netlist[idx]).fpObjs
           = AfterParameters(f).fpObjs
    /\ updateFootprintParameters(AfterParameters(f), f, netlist[idx]).commit
           = AfterParameters(f).commit

\* C25: in commit mode, for the component at hand and any footprint of the
\* board, updateFootprintParameters leaves the footprint with the reference,
\* value, path and properties of the component and the exclude-from-BOM bit
\* set exactly when the component has exclude_from_bom, every other attribute
\* bit as it was, and a second call with the same component reports nothing
\* and changes nothing; and every footprint a step of the component loop
\* synchronises carries these parameters after the step.
C25_ParametersIdempotent ==
    [][(Processing /\ ~opts.isDryRun) =>
          /\ \A f \in Range(footprints) :
                 /\ CarriesParameters(AfterParameters(f).fpObjs[f], netlist[idx])
                 /\ ClearBit(AfterParameters(f).fpObjs[f].attrs, FP_EXCLUDE_FROM_BOM)
                        = ClearBit(fpObjs[f].attrs, FP_EXCLUDE_FROM_BOM)
                 /\ SecondCallIdle(f)
          /\ \A j \in NewSyncs : CarriesParameters(fpObjs'[syncLog'[j][2]], netlist[idx])]_vars

\* R1 was synchronised with a component of another value that is excluded
\* from the BOM: the footprint has the value, the properties and the bit
C25_Witness ==
    /\ pc = "components"
    /\ idx = 2
    /\ ~opts.isDryRun
    /\ syncLog = << << 1, 1 >> >>
    /\ Len(before.fpObjs) >= 1
    /\ before.fpObjs[1].value = "10k"
    /\ ~HasBit(before.fpObjs[1].attrs, FP_EXCLUDE_FROM_BOM)
    /\ CarriesParameters(fpObjs[1], netlist[1])
    /\ fpObjs[1].value = "22k"
    /\ HasBit(fpObjs[1].attrs, FP_EXCLUDE_FROM_BOM)
    /\ Reported("action", << "Setting exclude from BOM", "R1" >>)

-----------------------------------------------------------------------------
(* C26: the connectivity validation *)

\* the step that rebuilds the connectivity and runs testConnectivity
Validating == pc = "connectivity"

\* the pins <<component, pin index>> without a pad of their name on the
\* footprint recorded for their component
OrphanedPins ==
    { cj \in (DOMAIN netlist) \X (1..2) :
        /\ cj[2] \in DOMAIN netlist[cj[1]].pins
        /\ Has(footprintMap, cj[1])
        /\ ~FindPadByName(fpObjs[footprintMap[cj[1]]], netlist[cj[1]].pins[cj[2]].pin) }

\* the message of the orphaned pin cj
OrphanMessage(cj) ==
    [sev |-> "error", tail |-> FALSE,
     msg |-> << "pad not found", netlist[cj[1]].ref, netlist[cj[1]].pins[cj[2]].pin,
                fpObjs[footprintMap[cj[1]]].fpid >>]

\* C26: the validation of a commit-mode pass reports exactly one Error for
\* each pin of a component with a recorded footprint that has no pad of the
\* pin's name, reports nothing else (nothing for a component without a
\* recorded footprint), and raises the error count by the number of these
\* pins.
C26_OrphanedPinsReported ==
    [][Validating =>
          /\ \A cj \in OrphanedPins :
                 Cardinality({ r \in NewReports : reports'[r] = OrphanMessage(cj) }) = 1
          /\ Cardinality(NewReports) = Cardinality(OrphanedPins)
          /\ errorCount' = errorCount + Cardinality(OrphanedPins)]_vars

\* R1 has a pin 9 and its footprint no such pad; R4 got no footprint (its
\* identifier is not in the library): one error for R4's footprint, one for
\* pin 9, none for the pin of R4
C26_Witness ==
    /\ pc = "prune"
    /\ ~opts.isDryRun
    /\ Len(netlist) = 2
    /\ Has(footprintMap, 1)
    /\ ~Has(footprintMap, 2)
    /\ Len(netlist[2].pins) = 1
    /\ Reported("error", << "pad not found", "R1", "9", "lib:A" >>)
    /\ NumReports("error") = 2
    /\ errorCount = 2

-----------------------------------------------------------------------------
(* C27: one new net per net name *)

\* the 'Add net' messages of the step, and those among them for one name
NewAddNets == { r \in NewReports : reports'[r].msg[1] = "Add net" }

NewAddNetsOf(name) == { r \in NewAddNets : reports'[r].msg[2] = name }

\* the NETINFO_ITEM objects the step makes (outside a dry run)
MintedNets == { n \in DOMAIN nets' : n > Len(nets) }

\* C27: a step makes a new net, and reports 'Add net', for a net name only
\* when the name is not in the registry of the board and not in the cache of
\* the nets added earlier in the pass, and at most once per name; outside a
\* dry run every 'Add net' message stands for one new net object of that
\* name, which the cache holds; and after a commit-mode pass no two
\* registered nets share a name.
C27_OneNetPerName ==
    [][/\ \A r \in NewAddNets :
              /\ FindNet(State, reports'[r].msg[2]) = NullId
              /\ ~Has(addedNets, reports'[r].msg[2])
              /\ Cardinality(NewAddNetsOf(reports'[r].msg[2])) = 1
              /\ Has(addedNets', reports'[r].msg[2])
       /\ ~opts.isDryRun =>
              /\ Cardinality(MintedNets) = Cardinality(NewAddNets)
              /\ \A n \in MintedNets :
                     /\ Cardinality(NewAddNetsOf(nets'[n].name)) = 1
                     /\ Has(addedNets', nets'[n].name)
                     /\ addedNets'[nets'[n].name] = n
       /\ (pc' = "idle" /\ runs' > 0 /\ ~opts.isDryRun) =>
              \A m, n \in netInfo' : nets'[m].name = nets'[n].name => m = n]_vars

\* a new footprint whose two pads are on N2, a net the board did not have:
\* one 'Add net', one new registered net, both pads on it
C27_Witness ==
    /\ CommitRun
    /\ Len(netlist) = 1
    /\ Len(netlist[1].pins) = 2
    /\ netlist[1].pins[1].net = "N2"
    /\ netlist[1].pins[2].net = "N2"
    /\ \A n \in DOMAIN before.nets : before.nets[n].name # "N2"
    /\ Cardinality({ r \in DOMAIN reports : reports[r].msg = << "Add net", "N2" >> }) = 1
    /\ Cardinality({ n \in DOMAIN nets : nets[n].name = "N2" }) = 1
    /\ Has(footprintMap, 1)
    /\ \A k \in 1..2 :
           /\ fpObjs[footprintMap[1]].pads[k].net \in netInfo
           /\ fpObjs[footprintMap[1]].pads[k].net > Len(before.nets)

-----------------------------------------------------------------------------
(* C28: the dry run as a preview of the commit run *)

\* lines 794-860: the component loop from component ci on
RECURSIVE ProcessComponents(_, _)
ProcessComponents(s, ci) ==
    IF ci > Len(s.netlist) THEN s
    ELSE ProcessComponents(ProcessComponent(s, ci), ci + 1)

\* lines 911-939
AfterSweep(s) ==
    IF ~s.opts.isDryRun
    THEN RemoveStaleAndPush(IF RunsPrune(s)
                            THEN deleteSinglePadNets(testConnectivity(BuildConnectivity(s)))
                            ELSE testConnectivity(BuildConnectivity(s)))
    ELSE IF RunsPrune(s) THEN deleteSinglePadNets(s) ELSE s

\* lines 763-957: one whole call of UpdateNetlist on state s
UpdateNetlistOn(s, aNetlist) ==
    Finish(AfterSweep(SweepUnused(updateCopperZoneNets(
        ProcessComponents(MarkAllStale(Initialize(s, aNetlist)), 1)))))

\* the board and the new updater the call started from, with options o
CallStart(o) ==
    [State EXCEPT !.footprints = before.footprints, !.fpObjs = before.fpObjs,
                  !.nets = before.nets, !.netInfo = before.netInfo,
                  !.zones = before.zones, !.tracks = before.tracks,
                  !.conn = ConnectedPads(before), !.opts = o,
                  !.oldToNew = EmptyMap, !.padNets = EmptyMap,
                  !.padPinFunctions = EmptyMap, !.addedNets = EmptyMap,
                  !.zoneCache = EmptyMap, !.commit = << >>]

\* an Action-severity message about a footprint, a pad, a zone, a via or a
\* single-pad net (the messages about the nets of the registry apart)
IsPreviewMessage(r) ==
    /\ r.sev = "action"
    /\ r.msg[1] \notin { "", "Add net", "Remove unused net" }

\* C28: the Action-severity messages about footprints, pads, zones, vias and
\* single-pad nets that a dry run has reported are, in their order, those a
\* commit run reports on the same board with the same netlist and the same
\* other options.
C28_DryRunPreviews ==
    DryRun =>
        SelectSeq(reports, IsPreviewMessage)
            = SelectSeq(UpdateNetlistOn(CallStart([RunOpts EXCEPT !.isDryRun = FALSE]),
                                        netlist).reports,
                        IsPreviewMessage)


\* the worker threads have all left their loop and counted themselves
AllWorkersExited == Workers # {} /\ \A w \in Workers : workerPc[w] = "exited"

\* the workers that hold layer index l and are collecting its polygons
Writing(l) == { w \in Workers : workerPc[w] = "process" /\ workerI[w] = l }

\* C29: under every interleaving of the worker threads each copper-layer
\* index below layerCount is obtained from the cursor by at most one worker,
\* so no two workers hold the same index at once and no polygon slot is
\* written by two workers or twice, each slot being written by the worker
\* that obtained its index; and once all workers have exited without a
\* cancellation, every index was obtained by exactly one worker and its slot
\* was written exactly once, in full.
C29_OneWorkerPerLayer ==
    /\ \A l \in DOMAIN obtained :
           /\ Cardinality(obtained[l]) <= 1
           /\ Cardinality(Writing(l)) <= 1
           /\ Writing(l) \subseteq obtained[l]
           /\ Len(layerPolys[l]) <= 1
           /\ \A j \in 1..Len(layerPolys[l]) : layerPolys[l][j].by \in obtained[l]
    /\ AllWorkersExited /\ ~cancelled =>
           /\ DOMAIN obtained = Layers
           /\ \A l \in Layers :
                  /\ Cardinality(obtained[l]) = 1
                  /\ Len(layerPolys[l]) = 1
                  /\ layerPolys[l][1].whole

\* two layers were processed by two different workers, and no cancellation
\* occurred
C29_Witness ==
    /\ AllWorkersExited
    /\ ~cancelled
    /\ layerCount >= 2
    /\ Len(layerPolys[0]) = 1
    /\ Len(layerPolys[1]) = 1
    /\ layerPolys[0][1].by # layerPolys[1][1].by


\* the main thread is past the wait loop: in the read loop, or returned from it
MainReads == mainPc = "read" \/ (mainPc = "returned" /\ Workers # {})

\* the workers that have incremented threads_finished
Finished == { w \in Workers : workerPc[w] = "exited" }

\* C30: the main thread is in (or past) its read loop only when every worker
\* has incremented threads_finished, each exactly once; a worker that has
\* incremented threads_finished takes no further step, so every write to a
\* polygon slot is made by a worker that has not yet counted itself, while
\* the main thread is still before its read loop; and a step in which the
\* main thread reads a slot is taken while no worker is writing and leaves
\* the slots as they are.
C30_ReadAfterBarrier ==
    [][/\ MainReads' => /\ Finished' = Workers'
                        /\ threads_finished' = parallelThreadCount'
       /\ threads_finished' = Cardinality(Finished')
       /\ \A w \in Finished : /\ w \in Finished'
                              /\ workerI'[w] = workerI[w]
       /\ layerPolys' # layerPolys /\ layerPolys # << >> =>
              /\ ~MainReads /\ ~MainReads'
              /\ \E w \in Workers \ Finished :
                     /\ workerPc[w] = "process"
                     /\ layerPolys' = [layerPolys EXCEPT ![workerI[w]] =
                                           Append(@, [by |-> w, whole |-> ~cancelled])]
       /\ (readLog' # readLog \/ mainIi' # mainIi) =>
              /\ MainReads
              /\ layerPolys' = layerPolys
              /\ \A l \in Layers : Writing(l) = {}
              /\ \A w \in Workers : workerPc[w] = "exited"]_vars

\* the main thread has read a slot that a worker wrote, after all workers
\* counted themselves
C30_Witness ==
    /\ mainPc = "read"
    /\ threads_finished = parallelThreadCount
    /\ Len(readLog) >= 1
    /\ readLog[1] # << >>

-----------------------------------------------------------------------------
(* C31: vias and zones on a net the netlist does not have *)

ViaName(t) == nets[tracks[t].net].name

\* the vias whose net name is no net name of the netlist
DeadVias == { t \in DOMAIN tracks : tracks[t].isVia /\ ViaName(t) \notin netlistNetnames(netlist) }

\* those of them the rename map has no entry for
UnrepairableVias == { t \in DeadVias : ~Has(oldToNew, ViaName(t)) }

\* the dead zones without a differing pad in their snapshot and without an
\* entry of the rename map
UnrepairableZones ==
    { z \in DeadZones : Differing(z) = {} /\ ~Has(oldToNew, ZoneName(z)) }

\* the dead zones that get no name from a pad or from the rename map
UnnamedZones ==
    { z \in DeadZones : FirstDifferingName(z) = "" /\ ~Has(oldToNew, ZoneName(z)) }

\* the warnings of the step that carry the message
NewWarnings(msg) ==
    { j \in DOMAIN reports' :
        j > Len(reports) /\ reports'[j].sev = "warning" /\ reports'[j].msg = msg }

\* the changes the step stages for the item
NewlyStaged(kind, id) ==
    { j \in DOMAIN commit' : j > Len(commit) /\ commit'[j].kind = kind /\ commit'[j].id = id }

\* C31: in the zone and via repair, a via whose net name is no net name of
\* the netlist and has no entry in the rename map, and a copper zone, no rule
\* area, whose net name is no net name of the netlist, has no entry in the
\* rename map and no differing pad in the zone's snapshot, keeps its net and
\* is not staged as modified; for every net name there is exactly one
\* 'Via connected to unknown net' Warning per such via and one 'Copper zone
\* has no pads connected' Warning per zone that got no name, and the warning
\* count increases by the number of these warnings; in commit mode a via
\* whose net name has an entry in the rename map is bound to the mapped net.
C31_UnrepairableWarned ==
    [][ZoneRepairing =>
          /\ \A t \in UnrepairableVias :
                 /\ tracks'[t] = tracks[t]
                 /\ NewlyStaged("track", t) = {}
          /\ \A z \in UnrepairableZones :
                 /\ z \in UnnamedZones
                 /\ zones'[z] = zones[z]
                 /\ NewlyStaged("zone", z) = {}
          /\ \A name \in { nets[n].name : n \in DOMAIN nets } :
                 /\ Cardinality(NewWarnings(<< "Via connected to unknown net", name >>))
                        = Cardinality({ t \in UnrepairableVias : ViaName(t) = name })
                 /\ Cardinality(NewWarnings(<< "Copper zone has no pads connected", name >>))
                        = Cardinality({ z \in UnnamedZones : ZoneName(z) = name })
          /\ warningCount' = warningCount + Cardinality(UnrepairableVias)
                                          + Cardinality(UnnamedZones)
          /\ Len(reports') - Len(reports) =
                 Cardinality(DeadVias) + Cardinality(DeadZones)
          /\ ~opts.isDryRun =>
                 \A t \in DeadVias \ UnrepairableVias :
                     nets'[tracks'[t].net].name = oldToNew[ViaName(t)]]_vars

-----------------------------------------------------------------------------
(* C32: vias and zones on a net of the netlist *)

\* the vias and the zones whose net name is a net name of the netlist
LiveVias == { t \in DOMAIN tracks : tracks[t].isVia /\ ViaName(t) \in netlistNetnames(netlist) }

LiveZones == { z \in DOMAIN zones : ZoneName(z) \in netlistNetnames(netlist) }

\* C32: the zone and via repair leaves every via and every zone whose net
\* name is a net name of the netlist on its net and does not stage it as
\* modified, and none of its Action or Warning messages names such a net as
\* the net of the item; the tracks that are no vias stay as they are, and no
\* other phase of UpdateNetlist touches a track or a zone.
C32_LiveItemsUntouched ==
    [][/\ ZoneRepairing =>
              /\ \A t \in LiveVias : tracks'[t] = tracks[t] /\ NewlyStaged("track", t) = {}
              /\ \A z \in LiveZones : zones'[z] = zones[z] /\ NewlyStaged("zone", z) = {}
              /\ \A t \in DOMAIN tracks : ~tracks[t].isVia => tracks'[t] = tracks[t]
              /\ \A j \in DOMAIN reports' :
                     j > Len(reports) => /\ reports'[j].sev \in { "action", "warning" }
                                         /\ reports'[j].msg[2] \notin netlistNetnames(netlist)
       /\ (pc # "idle" /\ ~ZoneRepairing) => (tracks' = tracks /\ zones' = zones)]_vars

\* the repair has run over a via and a zone on a net of the netlist for
\* which the rename map has an entry
C32_Witness ==
    /\ pc = "sweep"
    /\ \E t \in LiveVias : Has(oldToNew, ViaName(t)) /\ tracks[t] = before.tracks[t]
    /\ \E z \in LiveZones :
           /\ zones[z].onCopper /\ ~zones[z].ruleArea
           /\ Has(oldToNew, ZoneName(z))
           /\ zones[z] = before.zones[z]
    /\ \E j \in DOMAIN reports : reports[j].msg[1] = "Reconnect"

-----------------------------------------------------------------------------
(* C33: what the pruning of single-pad nets clears *)

\* the pads deleteSinglePadNets takes off their net in this step
ClearedPads == { p \in BoardPads : getNetname(State, p) # "" /\ ClearedAfter(p) }

\* C33: deleteSinglePadNets sets to unconnected only pads that are alone on
\* their net name among the pads of the board and whose net name is the net
\* name of no copper zone that is not a rule area, wherever the net name
\* stands in the sorted pad order.
C33_OnlyMeaninglessCleared ==
    [][Pruning =>
          \A p \in ClearedPads :
              /\ p \in SinglePads
              /\ ~CopperZoneOn(getNetname(State, p))]_vars

-----------------------------------------------------------------------------
(* C34: a footprint whose replacement cannot be loaded *)

\* replaceFootprints is set, component c matches footprint f, their
\* footprint identifiers differ and the component's cannot be loaded
FailsReplacing(f, c) ==
    /\ ~ExcludedFromBoard(c)
    /\ MatchedBy(f, c)
    /\ opts.replaceFootprints
    /\ netlist[c].fpid # fpObjs[f].fpid
    /\ (netlist[c].fpid = "" \/ ~CanLoad(netlist[c].fpid))

\* the footprints of the board whose replacement the next step of the
\* component loop attempts and fails
FailedMatches ==
    IF Processing THEN { f \in Range(footprints) : FailsReplacing(f, idx) } ELSE {}

\* the pads of footprint f keep their cached net names and pin functions
SameCaches(f) ==
    \A k \in DOMAIN fpObjs[f].pads :
        /\ Has(padNets', << f, k >>) = Has(padNets, << f, k >>)
        /\ Has(padNets, << f, k >>) => padNets'[<< f, k >>] = padNets[<< f, k >>]
        /\ Has(padPinFunctions', << f, k >>) = Has(padPinFunctions, << f, k >>)

\* the step of the component loop that fails to replace footprints raises
\* the error count by one for each, leaves each as it is, on the board and in
\* the caches, stages no change for it, does not make it the footprint of
\* the component, and adds no footprint
FailedReplacementIsLocal ==
    FailedMatches # {} =>
        /\ errorCount' = errorCount + Cardinality(FailedMatches)
        /\ Cardinality(NewErrors) >= Cardinality(FailedMatches)
        /\ \A f \in FailedMatches :
               /\ fpObjs'[f] = fpObjs[f]
               /\ SameCaches(f)
               /\ NewlyStaged("fp", f) = {}
               /\ ~(Has(footprintMap', idx) /\ footprintMap'[idx] = f)
               /\ \A j \in NewSyncs : syncLog'[j][2] # f
        /\ Len(fpObjs') = Len(fpObjs)
        /\ footprints' = footprints
        /\ newFootprintsCount' = newFootprintsCount
        /\ \A j \in NewChanges : commit'[j].op # "add" \/ commit'[j].kind # "fp"

-----------------------------------------------------------------------------
(* C35: the worker threads of the sliver check finish *)

\* C35: under fair scheduling, with or without a cancellation, once the
\* worker threads are started every worker leaves its loop and increments
\* threads_finished, exactly once each, so that threads_finished reaches
\* parallelThreadCount and the main thread leaves its wait loop; until then
\* threads_finished counts the workers that have finished and never exceeds
\* parallelThreadCount.
C35_WorkersFinish ==
    /\ (mainPc = "wait") ~> (/\ mainPc = "read"
                             /\ threads_finished = parallelThreadCount
                             /\ Finished = Workers)
    /\ [](/\ threads_finished = Cardinality(Finished)
          /\ threads_finished <= parallelThreadCount)

\* after a cancellation that cut the collection of a layer short, every
\* worker has counted itself and the main thread has left the wait loop
C35_Witness ==
    /\ mainPc = "read"
    /\ cancelled
    /\ threads_finished = parallelThreadCount
    /\ Finished = Workers
    /\ \E l \in DOMAIN layerPolys : Len(layerPolys[l]) = 1 /\ ~layerPolys[l][1].whole

-----------------------------------------------------------------------------
(* C36: a call and the calls before it on the same updater *)

\* a new updater on the board the running (or last) call started from: the
\* board and the connectivity the call snapshot in line 777, the call's
\* options, empty caches
FreshCall ==
    [CallStart(RunOpts) EXCEPT
        !.conn = [z \in DOMAIN before.zones |->
                      IF Has(zoneCache, z) THEN zoneCache[z]
                      ELSE ConnectedPads(before)[z]]]

\* a pad, its net given by name and by whether the registry holds it
PadView(s, pad) == [pad EXCEPT !.net = << s.nets[pad.net].name, pad.net \in s.netInfo >>]

FpView(s, f) ==
    [s.fpObjs[f] EXCEPT !.pads = [k \in DOMAIN s.fpObjs[f].pads |->
                                     PadView(s, s.fpObjs[f].pads[k])]]

\* what UpdateNetlist hands back: the board with its nets by name, the
\* reports and the counts
Outcome(s) ==
    [footprints |-> [j \in DOMAIN s.footprints |-> FpView(s, s.footprints[j])],
     zones |-> [z \in DOMAIN s.zones |-> s.nets[s.zones[z].net].name],
     tracks |-> [t \in DOMAIN s.tracks |-> s.nets[s.tracks[t].net].name],
     netNames |-> { s.nets[n].name : n \in s.netInfo },
     reports |-> s.reports,
     warningCount |-> s.warningCount,
     errorCount |-> s.errorCount]

\* C36: the board, the reports and the counts a call of UpdateNetlist leaves
\* are those a new updater leaves on the same board with the same netlist and
\* the same options, whatever calls the updater object has served before.
C36_PassDependsOnInputs ==
    [][(pc = "finish" /\ pc' = "idle") =>
          Outcome(State)' = Outcome(UpdateNetlistOn(FreshCall, netlist))]_vars

-----------------------------------------------------------------------------
(* C37: the nets of the vias and zones after the removal of the stale nets *)

\* C37: after a commit-mode run of UpdateNetlist every via and every copper
\* zone that is no rule area is bound to a net of the registry.
C37_ViasAndZonesOnRegisteredNets ==
    CommitRun =>
        /\ \A t \in DOMAIN tracks : tracks[t].isVia => tracks[t].net \in netInfo
        /\ \A z \in DOMAIN zones :
               (zones[z].onCopper /\ ~zones[z].ruleArea) => zones[z].net \in netInfo


-----------------------------------------------------------------------------
(* C38: the report of the pruning of single-pad nets *)

\* the "Remove single pad net" actions of the step that name the net
NewPruneReports(name) ==
    { j \in DOMAIN reports' :
        /\ j > Len(reports)
        /\ reports'[j].sev = "action"
        /\ reports'[j].msg = << "Remove single pad net", name >> }

\* C38: for every pad deleteSinglePadNets sets to unconnected (in a dry run:
\* caches an empty net name for), the step reports exactly one "Remove
\* single pad net" action that names the pad's net, also when the net name
\* is the last one of the sorted pad list.
C38_EveryClearedNetReported ==
    [][Pruning =>
          \A p \in ClearedPads :
              Cardinality(NewPruneReports(getNetname(State, p))) = 1]_vars


-----------------------------------------------------------------------------
(* C39: when the pad sync registers the footprint with the transaction *)

\* the state updateComponentPadConnections leaves for footprint f and the
\* component at hand, called after updateFootprintParameters as in lines
\* 826-827
AfterPadConnections(f) ==
    updateComponentPadConnections(AfterParameters(f), f, netlist[idx])

\* that call registered footprint f as modified
PadSyncRegisters(f) ==
    \E j \in DOMAIN AfterPadConnections(f).commit :
        /\ j > Len(AfterParameters(f).commit)
        /\ AfterPadConnections(f).commit[j].op = "modify"
        /\ AfterPadConnections(f).commit[j].kind = "fp"
        /\ AfterPadConnections(f).commit[j].id = f

\* net name, pin function and pin type of the pads of footprint f
PadValues(s, f) ==
    [k \in DOMAIN s.fpObjs[f].pads |->
        << PadNetname(s, << f, k >>), s.fpObjs[f].pads[k].pinFunction,
           s.fpObjs[f].pads[k].pinType >>]

\* C39: in commit mode, for the component at hand and any footprint of the
\* board that matches it, updateComponentPadConnections registers the
\* footprint as modified only if the net, the pin function or the pin type of
\* one of its pads is not what it was before the call; a footprint whose pads
\* are in the target state, pads without a netlist pin that are unconnected
\* included, is not registered.
C39_RegisteredOnlyOnChange ==
    (Processing /\ ~opts.isDryRun) =>
        \A f \in Range(footprints) :
            (IsMatch(State, f, netlist[idx]) /\ PadSyncRegisters(f))
            => PadValues(AfterPadConnections(f), f) # PadValues(AfterParameters(f), f)


-----------------------------------------------------------------------------
(* C40: the reads of the sorted pin list *)

\* the message of line 175
OnlyOnePin == << "A Power Symbol should have only one pin" >>

\* C40: every index at which CheckLibSymbol reads the sorted pin list is
\* smaller than the size of the list, for every symbol, a power symbol
\* without pins included; and a call on a power symbol whose pin count is
\* not 1 does not crash and has stored the "should have only one pin"
\* message once the power symbol test is over.
C40_PinReadsInRange ==
    /\ \A r \in pinReads : r < Len(pinList)
    /\ checkPc # "crashed"
    /\ (checkPc \in { "pins", "returned" } /\ ~aSymbol.null /\ aSymbol.isPower
        /\ Len(pinList) # 1)
       => \E j \in DOMAIN aMessages : aMessages[j] = OnlyOnePin

====
